---------------------------- MODULE Spec2Model ----------------------------
(***************************************************************************)
(* Outlet extraction and geocoding pipeline of the McDonald's Malaysia     *)
(* scraper.                                                                *)
(*                                                                         *)
(*   SpecGeo  the geocoding pipeline for one outlet after another:         *)
(*            McDonaldMalaysiaScraper._add_geocoding, McDonaldGeocoder,    *)
(*            NominatimService and KLCoordinateValidator, one action per   *)
(*            step of the variation loop and of the retry loop.            *)
(*   Spec     the scrape orchestrator: scrape_outlets called again and     *)
(*            again on one instance, the container loop, the click, sleep  *)
(*            and capture cycle with the route interception callback, the  *)
(*            fallback over the elements, and the duplicate check.  The    *)
(*            geocoding of an outlet is one step here, its result drawn    *)
(*            from what the pipeline of SpecGeo can return.                *)
(*                                                                         *)
(* Units.  Coordinates are integers in hundredths of a degree (3.15 is     *)
(* 315), confidences are integers in hundredths (0.95 is 95), and time is  *)
(* counted in ticks, TicksPerSecond of them to the second.  Python's None  *)
(* is the empty tuple and a present value v is the tuple <<v>>.            *)
(***************************************************************************)
EXTENDS Integers, Sequences, FiniteSets, TLC

None == <<>>
Some(v) == <<v>>
Val(x) == x[1]

Min(a, b) == IF a < b THEN a ELSE b
Max(a, b) == IF a > b THEN a ELSE b

SeqToSet(s) == { s[k] : k \in 1..Len(s) }

(***************************************************************************)
(* Bounds of the model.                                                    *)
(***************************************************************************)
TicksPerSecond == 2     \* resolution of the clock
MaxLatency == 2         \* longest time, in ticks, an answered request is told apart
MaxCalls == 2           \* outlets geocoded one after another in SpecGeo

(***************************************************************************)
(* Program constants.                                                      *)
(***************************************************************************)
rate_limit_delay == 1   \* seconds, NominatimService.__init__
max_retries == 3        \* NominatimService.__init__
timeout == 10           \* seconds, NominatimService.__init__
RATE_LIMIT_BACKOFF == 2 \* time.sleep(self.rate_limit_delay * 2)
TIMEOUT_BACKOFF == 1    \* time.sleep(1)

WAZE_CONFIDENCE == 95   \* 'confidence': 0.95

\* KLCoordinateValidator.KL_BOUNDS and KL_CENTRAL_BOUNDS
KL_MIN_LAT == 290
KL_MAX_LAT == 340
KL_MIN_LON == 10150
KL_MAX_LON == 10190
CENTRAL_MIN_LAT == 300
CENTRAL_MAX_LAT == 325
CENTRAL_MIN_LON == 10160
CENTRAL_MAX_LON == 10180
CENTRAL_CONFIDENCE == 90
GREATER_CONFIDENCE == 70
WATER_PENALTY == 20
PRECISION_PENALTY == 10
MIN_CONFIDENCE == 10
MAX_DECIMALS == 6

\* "1 <= lat <= 7 and 99 <= lon <= 119"
MY_MIN_LAT == 100
MY_MAX_LAT == 700
MY_MIN_LON == 9900
MY_MAX_LON == 11900


(***************************************************************************)
(* A float is its value in hundredths and the number of digits str() shows *)
(* after the decimal point.                                                *)
(***************************************************************************)
Float(v, d) == [v |-> v, decimals |-> d]

(***************************************************************************)
(* KLCoordinateValidator                                                   *)
(***************************************************************************)
KL_BOUNDS ==
    [min_latitude |-> KL_MIN_LAT, max_latitude |-> KL_MAX_LAT,
     min_longitude |-> KL_MIN_LON, max_longitude |-> KL_MAX_LON]

KL_CENTRAL_BOUNDS ==
    [min_latitude |-> CENTRAL_MIN_LAT, max_latitude |-> CENTRAL_MAX_LAT,
     min_longitude |-> CENTRAL_MIN_LON, max_longitude |-> CENTRAL_MAX_LON]
\* _is_within_bounds when the bounds are exclusive
_is_within_bounds_Exclusive(lat, lng, bounds) ==
    /\ bounds.min_latitude < lat.v /\ lat.v < bounds.max_latitude
    /\ bounds.min_longitude < lng.v /\ lng.v < bounds.max_longitude

_is_within_bounds(lat, lng, bounds) ==
    /\ bounds.min_latitude <= lat.v /\ lat.v <= bounds.max_latitude
    /\ bounds.min_longitude <= lng.v /\ lng.v <= bounds.max_longitude

\* The body only passes; the function returns False for every input.
_is_in_water(latitude, longitude) == FALSE

_is_too_precise(latitude, longitude) ==
    latitude.decimals > MAX_DECIMALS \/ longitude.decimals > MAX_DECIMALS

validate_coordinates(latitude, longitude) ==
    IF latitude = None \/ longitude = None
    THEN [is_valid |-> FALSE, confidence |-> 0, location_type |-> "invalid",
          validation_issues |-> <<>>]
    ELSE
    LET lat == Val(latitude)
        lng == Val(longitude)
        within_kl == _is_within_bounds(lat, lng, KL_BOUNDS)
        within_central_kl == _is_within_bounds(lat, lng, KL_CENTRAL_BOUNDS)
        base == IF within_central_kl THEN CENTRAL_CONFIDENCE ELSE GREATER_CONFIDENCE
        water == _is_in_water(lat, lng)
        precise == _is_too_precise(lat, lng)
        c1 == IF water THEN base - WATER_PENALTY ELSE base
        c2 == IF precise THEN c1 - PRECISION_PENALTY ELSE c1
    IN  IF ~within_kl
        THEN [is_valid |-> FALSE, confidence |-> 0, location_type |-> "outside_kl",
              validation_issues |-> <<>>]
        ELSE [is_valid |-> TRUE,
              confidence |-> Max(c2, MIN_CONFIDENCE),
              location_type |-> IF within_central_kl THEN "central_kl" ELSE "greater_kl",
              validation_issues |->
                  (IF water THEN <<"Coordinates may be in water">> ELSE <<>>)
                  \o (IF precise THEN <<"Coordinates suspiciously precise">> ELSE <<>>)]

\* round(x, 2) of x = n / 10000, in hundredths (ties to the even neighbour;
\* a value that is a tie in decimal is seldom one in binary floating point,
\* where round may take either neighbour)
Round2(n) ==
    LET q == n \div 100
        r == n % 100
    IN  IF r > 50 \/ (r = 50 /\ q % 2 = 1) THEN q + 1 ELSE q
\* validate_geocoding_result when both confidences weigh the same
validate_geocoding_result_EqualWeights(geocoding_result) ==
    IF geocoding_result = None \/ Val(geocoding_result).status # "success"
    THEN [latitude |-> None, longitude |-> None, status |-> "failed",
          confidence |-> 0,
          validation |-> [is_valid |-> FALSE, confidence |-> 0,
                          location_type |-> "failed_geocoding",
                          validation_issues |-> <<>>],
          combined_confidence |-> 0]
    ELSE
    LET g == Val(geocoding_result)
        validation == validate_coordinates(g.latitude, g.longitude)
    IN  [latitude |-> g.latitude, longitude |-> g.longitude, status |-> g.status,
         confidence |-> g.confidence,
         validation |-> validation,
         combined_confidence |->
             Round2(g.confidence * 50 + validation.confidence * 50)]

\* geocoding_result has status 'success' where the pipeline calls this
validate_geocoding_result(geocoding_result) ==
    IF geocoding_result = None \/ Val(geocoding_result).status # "success"
    THEN [latitude |-> None, longitude |-> None, status |-> "failed",
          confidence |-> 0,
          validation |-> [is_valid |-> FALSE, confidence |-> 0,
                          location_type |-> "failed_geocoding",
                          validation_issues |-> <<>>],
          combined_confidence |-> 0]
    ELSE
    LET g == Val(geocoding_result)
        validation == validate_coordinates(g.latitude, g.longitude)
    IN  [latitude |-> g.latitude, longitude |-> g.longitude, status |-> g.status,
         confidence |-> g.confidence,
         validation |-> validation,
         combined_confidence |->
             Round2(g.confidence * 70 + validation.confidence * 30)]

(***************************************************************************)
(* McDonaldGeocoder._extract_coordinates_from_waze_link                    *)
(*                                                                         *)
(* A link is its URL and, for each of the nine patterns of the function in *)
(* the order the function tries them, the pair re.search captures in that  *)
(* URL (None when the pattern does not match).                             *)
(***************************************************************************)
NoLink == [url |-> "", matches |-> <<>>]

InMalaysia(pair) ==
    /\ MY_MIN_LAT <= pair[1] /\ pair[1] <= MY_MAX_LAT
    /\ MY_MIN_LON <= pair[2] /\ pair[2] <= MY_MAX_LON

\* float() of the two captured groups
ParsedPair(pair) == <<Some(Float(pair[1], 2)), Some(Float(pair[2], 2))>>

RECURSIVE AlternativePatterns(_, _)
AlternativePatterns(matches, p) ==
    IF p > Len(matches) THEN <<None, None>>
    ELSE IF matches[p] # None /\ InMalaysia(Val(matches[p]))
         THEN ParsedPair(Val(matches[p]))
         ELSE AlternativePatterns(matches, p + 1)

_extract_coordinates_from_waze_link(waze_link) ==
    IF waze_link.url = "" THEN <<None, None>>
    ELSE IF waze_link.matches[1] # None
         THEN IF InMalaysia(Val(waze_link.matches[1]))
              THEN ParsedPair(Val(waze_link.matches[1]))
              ELSE <<None, None>>
    ELSE IF waze_link.matches[2] # None
         THEN IF InMalaysia(Val(waze_link.matches[2]))
              THEN ParsedPair(Val(waze_link.matches[2]))
              ELSE <<None, None>>
    ELSE AlternativePatterns(waze_link.matches, 3)

(***************************************************************************)
(* Addresses and outlet names.                                             *)
(*                                                                         *)
(* A text is a string with the set of the terms 'kuala lumpur', 'kl',      *)
(* 'malaysia', 'jalan', 'jln' that occur in its lower-case form.  A raw    *)
(* address is given with what the regular expressions of the geocoder      *)
(* find in it:                                                             *)
(*   raw       the address as scraped ("" when there is none)              *)
(*   body      the address after the cleaning substitutions and the        *)
(*             abbreviation expansion of _clean_address, without a         *)
(*             trailing ", Malaysia"                                       *)
(*   has_kuala_lumpur, has_kl, has_malaysia                                *)
(*             whether the lower-case body contains 'kuala lumpur', 'kl',  *)
(*             and whether the address names 'malaysia'                    *)
(*   street    group 1 of r'Jalan\s+([^,]+)' ("" when no match)            *)
(*   area      group 1 of the first matching area pattern                  *)
(*   landmark  group 1 of the first matching landmark pattern              *)
(*   simplified  _simplify_address of the body                             *)
(* and an outlet name with the location that r"McDonald's\s+(.+)" finds    *)
(* after the brand, its DT/SF suffix removed.                              *)
(***************************************************************************)
Text(s, t) == [text |-> s, terms |-> t]

Cat(a, b) == [text |-> a.text \o b.text, terms |-> a.terms \cup b.terms]

CITY_SUFFIX == Text(", Kuala Lumpur", {"kuala lumpur"})
COUNTRY_SUFFIX == Text(", Malaysia", {"malaysia"})
KL_SUFFIX == Text(", KL", {"kl"})
JALAN_PREFIX == Text("Jalan ", {"jalan"})
KUALA_LUMPUR == Text("Kuala Lumpur", {"kuala lumpur"})
KL == Text("KL", {"kl"})
EMPTY == Text("", {})

NoAddress ==
    [raw |-> "", length |-> 0, body |-> EMPTY, has_kuala_lumpur |-> FALSE, has_kl |-> FALSE,
     has_malaysia |-> FALSE, street |-> EMPTY, area |-> EMPTY, landmark |-> EMPTY,
     simplified |-> EMPTY]

\* "Lot 2.36.00 Jalan Ampang, Kuala Lumpur"
AddressAmpang ==
    [raw |-> "Lot 2.36.00 Jalan Ampang, Kuala Lumpur", length |-> 38,
     body |-> Text("Lot 2.36.00 Jalan Ampang, Kuala Lumpur", {"jalan", "kuala lumpur"}),
     has_kuala_lumpur |-> TRUE, has_kl |-> FALSE, has_malaysia |-> FALSE,
     street |-> Text("Ampang", {}), area |-> Text("Ampang", {}), landmark |-> EMPTY,
     simplified |-> Text(".. Jalan Ampang, Kuala Lumpur", {"jalan", "kuala lumpur"})]

\* "Titiwangsa"
AddressTitiwangsa ==
    [raw |-> "Titiwangsa", length |-> 10,
     body |-> Text("Titiwangsa", {}),
     has_kuala_lumpur |-> FALSE, has_kl |-> FALSE, has_malaysia |-> FALSE,
     street |-> EMPTY, area |-> EMPTY, landmark |-> EMPTY,
     simplified |-> Text("Titiwangsa", {})]

\* "Kuala Lumpur, Malaysia"
AddressCity ==
    [raw |-> "Kuala Lumpur, Malaysia", length |-> 22,
     body |-> KUALA_LUMPUR,
     has_kuala_lumpur |-> TRUE, has_kl |-> FALSE, has_malaysia |-> TRUE,
     street |-> EMPTY, area |-> EMPTY, landmark |-> EMPTY,
     simplified |-> KUALA_LUMPUR]

\* "Suria KLCC"
AddressSuria ==
    [raw |-> "Suria KLCC", length |-> 10,
     body |-> Text("Suria KLCC", {"kl"}),
     has_kuala_lumpur |-> FALSE, has_kl |-> TRUE, has_malaysia |-> FALSE,
     street |-> EMPTY, area |-> EMPTY, landmark |-> Text("Suria KLCC", {"kl"}),
     simplified |-> Text("Suria KLCC", {"kl"})]
\* "Alam-1, Jalan Setia"
AddressAlamSetia ==
    [raw |-> "Alam-1, Jalan Setia", length |-> 19,
     body |-> Text("Alam-1, Jalan Setia", {"jalan"}),
     has_kuala_lumpur |-> FALSE, has_kl |-> FALSE, has_malaysia |-> FALSE,
     street |-> Text("Setia", {}), area |-> EMPTY, landmark |-> EMPTY,
     simplified |-> Text("Alam-1, Jalan Setia", {"jalan"})]

\* "1, Jalan Setia"
AddressSetia ==
    [raw |-> "1, Jalan Setia", length |-> 14,
     body |-> Text("1, Jalan Setia", {"jalan"}),
     has_kuala_lumpur |-> FALSE, has_kl |-> FALSE, has_malaysia |-> FALSE,
     street |-> Text("Setia", {}), area |-> EMPTY, landmark |-> EMPTY,
     simplified |-> Text("1, Jalan Setia", {"jalan"})]

NameSetia ==
    [text |-> "McDonald's Setia", mcdonalds |-> TRUE, location |-> Text("Setia", {})]
NameSetiaAlam ==
    [text |-> "McDonald's Setia-Alam", mcdonalds |-> TRUE,
     location |-> Text("Setia-Alam", {})]

NameKLCC ==
    [text |-> "McDonald's KLCC", mcdonalds |-> TRUE, location |-> Text("KLCC", {"kl"})]
NameTitiwangsa ==
    [text |-> "McDonald's Titiwangsa", mcdonalds |-> TRUE,
     location |-> Text("Titiwangsa", {})]
NoName == [text |-> "", mcdonalds |-> FALSE, location |-> EMPTY]

(***************************************************************************)
(* McDonaldGeocoder._clean_address: the cleaned address, with the parts    *)
(* the variation generator will find in it.                                *)
(***************************************************************************)
_clean_address(address) ==
    LET with_city ==
            IF ~address.has_kuala_lumpur /\ ~address.has_kl
            THEN Cat(address.body, CITY_SUFFIX) ELSE address.body
        with_country == Cat(with_city, COUNTRY_SUFFIX)
    IN  [text |-> IF address.raw = "" THEN EMPTY ELSE with_country,
         sans_country |-> with_city,
         street |-> address.street, area |-> address.area,
         landmark |-> address.landmark,
         simplified |->
             IF ~address.has_kuala_lumpur /\ ~address.has_kl
             THEN Cat(address.simplified, CITY_SUFFIX) ELSE address.simplified]

RECURSIVE Unique(_, _)
\* "Remove duplicates while preserving order"
Unique(vs, seen) ==
    IF vs = <<>> THEN <<>>
    ELSE IF Head(vs).text # "" /\ Head(vs).text \notin seen
         THEN <<Head(vs)>> \o Unique(Tail(vs), seen \cup {Head(vs).text})
         ELSE Unique(Tail(vs), seen)

_generate_progressive_variations(address, outlet_name) ==
    LET v1 == <<address.sans_country>>
        v2 == IF address.street.text # ""
              THEN <<Cat(address.street, CITY_SUFFIX),
                     Cat(JALAN_PREFIX, Cat(address.street, KL_SUFFIX))>>
              ELSE <<>>
        v3 == IF address.area.text # ""
              THEN <<Cat(address.area, CITY_SUFFIX)>> ELSE <<>>
        v4 == IF address.landmark.text # ""
              THEN <<Cat(address.landmark, CITY_SUFFIX)>> ELSE <<>>
        v5 == IF outlet_name.location.text # ""
              THEN <<Cat(outlet_name.location, CITY_SUFFIX)>> ELSE <<>>
        upto5 == v1 \o v2 \o v3 \o v4 \o v5
        v6 == IF address.simplified.text # ""
                 /\ address.simplified.text \notin { x.text : x \in SeqToSet(upto5) }
              THEN <<address.simplified>> ELSE <<>>
    IN  Unique(upto5 \o v6 \o <<KUALA_LUMPUR, KL>>, {})

\* "not variation or len(variation.strip()) < 3", over the texts of the model
TooShort(variation) == variation.text \in {"", "KL"}

(***************************************************************************)
(* Outlet records.  A key the dictionary does not hold is None.            *)
(***************************************************************************)
OutletData(name, address, waze_link) ==
    [name |-> name, address |-> address, waze_link |-> waze_link,
     latitude |-> None, longitude |-> None, geocoding |-> None]

_add_geocoding_failure(outlet_data, reason) ==
    [outlet_data EXCEPT
        !.latitude = None,
        !.longitude = None,
        !.geocoding = Some([status |-> "failed", confidence |-> 0,
                            location_type |-> "failed", reason |-> reason])]

(***************************************************************************)
(* McDonaldGeocoder.geocode_outlet.  geocoding_result is what the call of  *)
(* _try_geocoding_variations returns; the call is made only when           *)
(* NeedsAddressGeocoding holds.                                            *)
(***************************************************************************)
WazeCoordinates(outlet_data) ==
    IF outlet_data.waze_link.url # ""
    THEN _extract_coordinates_from_waze_link(outlet_data.waze_link)
    ELSE <<None, None>>

WazeLinkSucceeds(outlet_data) ==
    /\ outlet_data.waze_link.url # ""
    /\ WazeCoordinates(outlet_data)[1] # None
    /\ WazeCoordinates(outlet_data)[2] # None
\* NeedsAddressGeocoding when the address is geocoded whatever the link gave
NeedsAddressGeocoding_IgnoresLink(outlet_data) == outlet_data.address.raw # ""

NeedsAddressGeocoding(outlet_data) ==
    ~WazeLinkSucceeds(outlet_data) /\ outlet_data.address.raw # ""

FromWazeLink(outlet_data) ==
    [outlet_data EXCEPT
        !.latitude = WazeCoordinates(outlet_data)[1],
        !.longitude = WazeCoordinates(outlet_data)[2],
        !.geocoding = Some([status |-> "success", confidence |-> WAZE_CONFIDENCE,
                            location_type |-> "waze_link", reason |-> ""])]
\* FromAddress with the rejected pair left in the failed record
FromAddress_KeepsCoordinates(outlet_data, geocoding_result) ==
    IF geocoding_result = None \/ Val(geocoding_result).status # "success"
    THEN _add_geocoding_failure(outlet_data, "Geocoding failed")
    ELSE
    LET validated_result == validate_geocoding_result(geocoding_result)
    IN  IF ~validated_result.validation.is_valid
        THEN [_add_geocoding_failure(outlet_data, "Invalid coordinates") EXCEPT
                !.latitude = validated_result.latitude,
                !.longitude = validated_result.longitude]
        ELSE [outlet_data EXCEPT
                !.latitude = validated_result.latitude,
                !.longitude = validated_result.longitude,
                !.geocoding =
                    Some([status |-> "success",
                          confidence |-> validated_result.combined_confidence,
                          location_type |-> validated_result.validation.location_type,
                          reason |-> ""])]

\* FromAddress without the is_valid check
FromAddress_Unvalidated(outlet_data, geocoding_result) ==
    IF geocoding_result = None \/ Val(geocoding_result).status # "success"
    THEN _add_geocoding_failure(outlet_data, "Geocoding failed")
    ELSE
    LET validated_result == validate_geocoding_result(geocoding_result)
    IN  [outlet_data EXCEPT
            !.latitude = validated_result.latitude,
            !.longitude = validated_result.longitude,
            !.geocoding =
                Some([status |-> "success",
                      confidence |-> validated_result.combined_confidence,
                      location_type |-> validated_result.validation.location_type,
                      reason |-> ""])]

FromAddress(outlet_data, geocoding_result) ==
    IF geocoding_result = None \/ Val(geocoding_result).status # "success"
    THEN _add_geocoding_failure(outlet_data, "Geocoding failed")
    ELSE
    LET validated_result == validate_geocoding_result(geocoding_result)
    IN  IF ~validated_result.validation.is_valid
        THEN _add_geocoding_failure(outlet_data, "Invalid coordinates")
        ELSE [outlet_data EXCEPT
                !.latitude = validated_result.latitude,
                !.longitude = validated_result.longitude,
                !.geocoding =
                    Some([status |-> "success",
                          confidence |-> validated_result.combined_confidence,
                          location_type |-> validated_result.validation.location_type,
                          reason |-> ""])]

geocode_outlet(outlet_data, geocoding_result) ==
    IF WazeLinkSucceeds(outlet_data) THEN FromWazeLink(outlet_data)
    ELSE IF outlet_data.address.raw = ""
         THEN _add_geocoding_failure(outlet_data, "No address provided")
         ELSE FromAddress(outlet_data, geocoding_result)

Succeeded(outlet) ==
    outlet.geocoding # None /\ Val(outlet.geocoding).status = "success"

(***************************************************************************)
(* NominatimService: what one request to the service can end in.           *)
(***************************************************************************)
Location(lat, lon, importance) ==
    [latitude |-> lat, longitude |-> lon, importance |-> importance]

Locations ==
    { Location(Float(315, 4), Float(10171, 4), 60),     \* central Kuala Lumpur
      Location(Float(295, 7), Float(10155, 7), 30),     \* greater Kuala Lumpur
      Location(Float(542, 4), Float(10033, 4), 80) }    \* George Town, Penang

\* round(min(min(importance, 1.0) + min(0.1 * terms, 0.3), 1.0), 2)
_calculate_confidence(location, original_address) ==
    LET base_confidence == Min(location.importance, 100)
        term_bonus == Min(10 * Cardinality(original_address.terms), 30)
    IN  Min(base_confidence + term_bonus, 100)

Result(status, latitude, longitude, confidence) ==
    [status |-> status, latitude |-> latitude, longitude |-> longitude,
     confidence |-> confidence]

Failure(status) == Result(status, None, None, 0)

(***************************************************************************)
(* State of the geocoding pipeline.                                        *)
(***************************************************************************)
VARIABLES
    geocoding_enabled,  \* stats['geocoding_enabled'] and self.geocoder is set
    gpc,                \* where the pipeline stands
    calls,              \* calls of _add_geocoding made so far
    outlet_data,        \* the argument of _add_geocoding
    variations,         \* the list _try_geocoding_variations iterates over
    vi,                 \* position in variations (1-based)
    retry_count,        \* geocode_address's retry_count
    result,             \* what geocode_address returned for variations[vi]
    geocoding_result,   \* what _try_geocoding_variations returned
    enhanced_outlet,    \* what geocode_outlet returned
    returned,           \* what _add_geocoding returned
    geo_stats,          \* the scraper's geocoding counters and the geocoder's
    since_last,         \* ticks since last_request_time (capped)
    since_request,      \* ticks since the latest request was sent (-1: none yet)
    last_gap,           \* ticks between the two latest requests (capped)
    in_flight,          \* requests sent and not yet answered
    queried,            \* positions of the variations passed to geocode_address
    attempts,           \* requests sent for variations[vi]
    sent,               \* requests sent for this outlet
    last_outcome,       \* how the latest request for variations[vi] ended
    limited_at,         \* position being queried when the service first rate-limited
    succeeded_at        \* position whose query returned status success

geo_vars ==
    <<geocoding_enabled, gpc, calls, outlet_data, variations, vi, retry_count, result,
      geocoding_result, enhanced_outlet, returned, geo_stats, since_last,
      since_request, last_gap, in_flight, queried, attempts, sent, last_outcome,
      limited_at, succeeded_at>>

(***************************************************************************)
(* State of the scraper: one McDonaldMalaysiaScraper and its browser.      *)
(***************************************************************************)
VARIABLES
    run,                \* calls of scrape_outlets made on the instance
    pc,                 \* where the run stands
    n_containers,       \* len(outlet_containers), or len(outlet_elements)
    i,                  \* position in the containers or elements (1-based)
    container_data,     \* outlet_data of the container being processed
    outlets,            \* the list of outlets of this run
    processed_outlets,  \* self.processed_outlets
    stats,              \* unique_outlets, duplicates_skipped, total_found
    captured_urls,      \* self.captured_urls, each URL with the request's cause
    pending,            \* requests issued whose handle_route has not run yet
    popups,             \* context.pages beyond self.page
    waze_url,           \* what _click_waze_in_container returned, with its cause
    checked,            \* outlets that reached the duplicate check
    failed              \* what raised in the latest container whose click cycle began

orch_vars ==
    <<run, pc, n_containers, i, container_data, outlets, processed_outlets, stats,
      captured_urls, pending, popups, waze_url, checked, failed>>

(***************************************************************************)
(* State of one call of scrape_outlets seen from its caller: the browser   *)
(* handles, the store behind _save_to_database, and what the call gave.    *)
(***************************************************************************)
VARIABLES
    database_integration, \* self.database_integration
    handles,            \* self.page, self.context, self.browser
    db,                 \* names of the rows of the outlets table
    save_stats,         \* successfully_saved, database_errors
    times,              \* start_time, end_time, total_runtime
    scrape_result       \* how the latest call of scrape_outlets ended

run_vars == <<database_integration, handles, db, save_stats, times, scrape_result>>

(***************************************************************************)
(* A pure function applied to one input: its name, arguments and value.    *)
(***************************************************************************)
VARIABLE applied

orch_vars_but_pc ==
    <<run, n_containers, i, container_data, outlets, processed_outlets, stats,
      captured_urls, pending, popups, waze_url, checked, failed>>

vars == <<geo_vars, orch_vars, run_vars, applied>>

DelayTicks == rate_limit_delay * TicksPerSecond

Capped(t) == Min(t, DelayTicks)

\* the clocks after d more ticks
Elapse(d) ==
    /\ since_last' = Capped(since_last + d)
    /\ since_request' = IF since_request < 0 THEN since_request
                        ELSE Capped(since_request + d)


\* https://www.waze.com/live-map/directions?to=ll.3.15%2C101.71
LinkLiveMap ==
    [url |-> "https://www.waze.com/live-map/directions?to=ll.3.15%2C101.71",
     matches |-> <<Some(<<315, 10171>>), None, None, None, None, None, None,
                   Some(<<315, 10171>>), None>>]
\* https://waze.com/ul?ll=5.42,100.33 (in Malaysia, outside Kuala Lumpur)
LinkPenang ==
    [url |-> "https://waze.com/ul?ll=5.42,100.33",
     matches |-> <<None, Some(<<542, 10033>>), None, None, None, None, None, None,
                   None>>]
\* https://waze.com/ul?ll=13.75,100.50&q=3.15,101.71 (ll= outside Malaysia)
LinkAbroad ==
    [url |-> "https://waze.com/ul?ll=13.75,100.50&q=3.15,101.71",
     matches |-> <<None, Some(<<1375, 10050>>), None, None, Some(<<315, 10171>>),
                   None, None, None, None>>]
\* https://waze.com/ul?q=13.75,100.50&at=3.15,101.71
LinkAlternative ==
    [url |-> "https://waze.com/ul?q=13.75,100.50&at=3.15,101.71",
     matches |-> <<None, None, None, None, Some(<<1375, 10050>>),
                   Some(<<315, 10171>>), None, None, None>>]

\* https://waze.com/ul?ll=101.71,3.15 (longitude first)
LinkSwapped ==
    [url |-> "https://waze.com/ul?ll=101.71,3.15",
     matches |-> <<None, Some(<<10171, 315>>), None, None, None, None, None, None,
                   None>>]

WazeLinks == {NoLink, LinkLiveMap, LinkPenang, LinkAbroad, LinkAlternative, LinkSwapped}

GeoOutlets ==
    { OutletData(NameKLCC, AddressTitiwangsa, LinkLiveMap),
      OutletData(NameKLCC, NoAddress, LinkPenang),
      OutletData(NameKLCC, AddressCity, LinkAlternative),
      OutletData(NameTitiwangsa, AddressTitiwangsa, NoLink),
      OutletData(NameKLCC, AddressAmpang, LinkSwapped),
      OutletData(NoName, AddressCity, LinkAbroad),
      OutletData(NameKLCC, NoAddress, NoLink),
      OutletData(NoName, NoAddress, LinkAbroad) }

NoOutlet == OutletData(NoName, NoAddress, NoLink)

ZeroGeoStats ==
    [geocoding_successful |-> 0, geocoding_failed |-> 0,
     waze_coordinates_extracted |-> 0, rate_limited |-> 0]

GeoInit ==
    /\ geocoding_enabled \in BOOLEAN
    /\ gpc = "idle"
    /\ calls = 0
    /\ outlet_data = NoOutlet
    /\ variations = <<>>
    /\ vi = 0
    /\ retry_count = 0
    /\ result = None
    /\ geocoding_result = None
    /\ enhanced_outlet = None
    /\ returned = None
    /\ geo_stats = ZeroGeoStats
    /\ since_last = DelayTicks      \* last_request_time = 0, long ago
    /\ since_request = -1
    /\ last_gap = None
    /\ in_flight = 0
    /\ queried = <<>>
    /\ attempts = 0
    /\ sent = 0
    /\ last_outcome = "none"
    /\ limited_at = None
    /\ succeeded_at = None

(***************************************************************************)
(* _add_geocoding is called with an outlet.                                *)
(***************************************************************************)
\* "if not self.geocoder or not self.stats['geocoding_enabled']: return outlet_data"
AddGeocodingDisabled(o) ==
    /\ gpc = "idle" /\ calls < MaxCalls
    /\ ~geocoding_enabled
    /\ calls' = calls + 1
    /\ outlet_data' = o
    /\ enhanced_outlet' = None
    /\ returned' = Some(o)
    /\ UNCHANGED <<geocoding_enabled, gpc, variations, vi, retry_count, result,
                   geocoding_result, geo_stats, since_last, since_request, last_gap,
                   in_flight, queried, attempts, sent, last_outcome, limited_at,
                   succeeded_at>>
    /\ UNCHANGED <<orch_vars, run_vars, applied>>

\* geocode_outlet up to its return from the Waze branch or for a missing
\* address, or up to the call of _try_geocoding_variations; idle is the time
\* that passed since the previous call returned
GeocodeOutlet(o, idle) ==
    /\ gpc = "idle" /\ calls < MaxCalls
    /\ geocoding_enabled
    /\ calls' = calls + 1
    /\ outlet_data' = o
    /\ Elapse(idle)
    /\ returned' = None
    /\ IF NeedsAddressGeocoding(o)
       THEN /\ variations' =
                   _generate_progressive_variations(_clean_address(o.address), o.name)
            /\ vi' = 1
            /\ enhanced_outlet' = None
            /\ gpc' = "variation"
       ELSE /\ enhanced_outlet' = Some(geocode_outlet(o, None))
            /\ gpc' = "geocoded"
            /\ UNCHANGED <<variations, vi>>
    /\ UNCHANGED <<geocoding_enabled, retry_count, result, geocoding_result, geo_stats,
                   last_gap, in_flight, queried, attempts, sent, last_outcome,
                   limited_at, succeeded_at>>
    /\ UNCHANGED <<orch_vars, run_vars, applied>>

(***************************************************************************)
(* McDonaldGeocoder._try_geocoding_variations: the loop over variations.   *)
(***************************************************************************)
\* the loop ends without a return: "return None"
VariationsExhausted ==
    /\ gpc = "variation"
    /\ vi > Len(variations)
    /\ geocoding_result' = None
    /\ gpc' = "validate"
    /\ UNCHANGED <<geocoding_enabled, calls, outlet_data, variations, vi, retry_count,
                   result, enhanced_outlet, returned, geo_stats, since_last,
                   since_request, last_gap, in_flight, queried, attempts, sent,
                   last_outcome, limited_at, succeeded_at>>
    /\ UNCHANGED <<orch_vars, run_vars, applied>>

\* "if not variation or len(variation.strip()) < 3: continue"
SkipVariation ==
    /\ gpc = "variation"
    /\ vi <= Len(variations)
    /\ TooShort(variations[vi])
    /\ vi' = vi + 1
    /\ UNCHANGED <<geocoding_enabled, gpc, calls, outlet_data, variations, retry_count,
                   result, geocoding_result, enhanced_outlet, returned, geo_stats,
                   since_last, since_request, last_gap, in_flight, queried, attempts,
                   sent, last_outcome, limited_at, succeeded_at>>
    /\ UNCHANGED <<orch_vars, run_vars, applied>>

(***************************************************************************)
(* NominatimService._rate_limit: sleep until rate_limit_delay has passed   *)
(* since last_request_time, then set last_request_time to now.             *)
(***************************************************************************)
RateLimitSleep == IF since_last < DelayTicks THEN DelayTicks - since_last ELSE 0

_rate_limit ==
    /\ since_last' = 0
    /\ since_request' = IF since_request < 0 THEN since_request
                        ELSE Capped(since_request + RateLimitSleep)

\* geocode_address is entered for variations[vi]: _rate_limit, retry_count = 0
CallGeocodeAddress ==
    /\ gpc = "variation"
    /\ vi <= Len(variations)
    /\ ~TooShort(variations[vi])
    /\ _rate_limit
    /\ retry_count' = 0
    /\ attempts' = 0
    /\ queried' = Append(queried, vi)
    /\ last_outcome' = "none"
    /\ gpc' = "attempt"
    /\ UNCHANGED <<geocoding_enabled, calls, outlet_data, variations, vi, result,
                   geocoding_result, enhanced_outlet, returned, geo_stats, last_gap,
                   in_flight, sent, limited_at, succeeded_at>>
    /\ UNCHANGED <<orch_vars, run_vars, applied>>
\* SendRequest when the loop condition lets one more request through
SendRequest_OneMore ==
    /\ gpc = "attempt"
    /\ retry_count <= max_retries
    /\ last_gap' = IF since_request < 0 THEN None ELSE Some(since_request)
    /\ since_request' = 0
    /\ in_flight' = in_flight + 1
    /\ attempts' = attempts + 1
    /\ sent' = sent + 1
    /\ gpc' = "awaiting"
    /\ UNCHANGED <<geocoding_enabled, calls, outlet_data, variations, vi, retry_count,
                   result, geocoding_result, enhanced_outlet, returned, geo_stats,
                   since_last, queried, last_outcome, limited_at, succeeded_at>>
    /\ UNCHANGED <<orch_vars, run_vars, applied>>

\* "while retry_count < self.max_retries": self.geocoder.geocode(...) is sent
SendRequest ==
    /\ gpc = "attempt"
    /\ retry_count < max_retries
    /\ last_gap' = IF since_request < 0 THEN None ELSE Some(since_request)
    /\ since_request' = 0
    /\ in_flight' = in_flight + 1
    /\ attempts' = attempts + 1
    /\ sent' = sent + 1
    /\ gpc' = "awaiting"
    /\ UNCHANGED <<geocoding_enabled, calls, outlet_data, variations, vi, retry_count,
                   result, geocoding_result, enhanced_outlet, returned, geo_stats,
                   since_last, queried, last_outcome, limited_at, succeeded_at>>
    /\ UNCHANGED <<orch_vars, run_vars, applied>>

\* the loop condition fails: status 'max_retries_exceeded'
MaxRetriesExceeded ==
    /\ gpc = "attempt"
    /\ retry_count >= max_retries
    /\ result' = Some(Failure("max_retries_exceeded"))
    /\ gpc' = "result"
    /\ UNCHANGED <<geocoding_enabled, calls, outlet_data, variations, vi, retry_count,
                   geocoding_result, enhanced_outlet, returned, geo_stats, since_last,
                   since_request, last_gap, in_flight, queried, attempts, sent,
                   last_outcome, limited_at, succeeded_at>>
    /\ UNCHANGED <<orch_vars, run_vars, applied>>

\* what is common to every way a request ends
Answered(kind) ==
    /\ gpc = "awaiting"
    /\ in_flight' = in_flight - 1
    /\ last_outcome' = kind
    /\ UNCHANGED <<geocoding_enabled, calls, outlet_data, variations, vi,
                   geocoding_result, enhanced_outlet, returned, geo_stats, last_gap,
                   queried, attempts, sent, succeeded_at>>
    /\ UNCHANGED <<orch_vars, run_vars, applied>>

\* "if location:" the result with status 'success' is returned
ReceiveLocation(location, d) ==
    /\ Answered("location")
    /\ Elapse(d)
    /\ result' = Some(Result("success", Some(location.latitude),
                             Some(location.longitude),
                             _calculate_confidence(location, variations[vi])))
    /\ gpc' = "result"
    /\ UNCHANGED <<retry_count, limited_at>>

\* "else:" status 'no_results' is returned
ReceiveNoResults(d) ==
    /\ Answered("no_results")
    /\ Elapse(d)
    /\ result' = Some(Failure("no_results"))
    /\ gpc' = "result"
    /\ UNCHANGED <<retry_count, limited_at>>

\* "except GeocoderRateLimited": sleep rate_limit_delay * 2, retry_count += 1
ReceiveRateLimited(d) ==
    /\ Answered("rate_limited")
    /\ Elapse(d + RATE_LIMIT_BACKOFF * DelayTicks)
    /\ retry_count' = retry_count + 1
    /\ limited_at' = IF limited_at = None THEN Some(vi) ELSE limited_at
    /\ gpc' = "attempt"
    /\ UNCHANGED result

\* "except GeocoderTimedOut": retry_count += 1, sleep 1 second
ReceiveTimedOut ==
    /\ Answered("timed_out")
    /\ Elapse(timeout * TicksPerSecond + TIMEOUT_BACKOFF * TicksPerSecond)
    /\ retry_count' = retry_count + 1
    /\ gpc' = "attempt"
    /\ UNCHANGED <<result, limited_at>>
\* ReceiveServiceError when a service error is handled like a timeout
ReceiveServiceError_Retries(d) ==
    /\ Answered("service_error")
    /\ Elapse(d + TIMEOUT_BACKOFF * TicksPerSecond)
    /\ retry_count' = retry_count + 1
    /\ gpc' = "attempt"
    /\ UNCHANGED <<result, limited_at>>

\* "except GeocoderServiceError": status 'service_error' is returned
ReceiveServiceError(d) ==
    /\ Answered("service_error")
    /\ Elapse(d)
    /\ result' = Some(Failure("service_error"))
    /\ gpc' = "result"
    /\ UNCHANGED <<retry_count, limited_at>>

\* "except Exception": status 'error' is returned
ReceiveError(d) ==
    /\ Answered("error")
    /\ Elapse(d)
    /\ result' = Some(Failure("error"))
    /\ gpc' = "result"
    /\ UNCHANGED <<retry_count, limited_at>>
\* AfterResult when a successful result does not end the loop
AfterResult_ContinuesAfterSuccess ==
    /\ gpc = "result"
    /\ IF Val(result).status = "success"
       THEN /\ geocoding_result' = result
            /\ succeeded_at' = IF succeeded_at = None THEN Some(vi) ELSE succeeded_at
       ELSE UNCHANGED <<geocoding_result, succeeded_at>>
    /\ vi' = vi + 1
    /\ gpc' = "variation"
    /\ UNCHANGED <<geocoding_enabled, calls, outlet_data, variations, retry_count,
                   result, enhanced_outlet, returned, geo_stats, since_last,
                   since_request, last_gap, in_flight, queried, attempts, sent,
                   last_outcome, limited_at>>
    /\ UNCHANGED <<orch_vars, run_vars, applied>>

\* back in the loop of _try_geocoding_variations with geocode_address's result
AfterResult ==
    /\ gpc = "result"
    /\ IF Val(result).status = "success"
       THEN /\ geocoding_result' = result
            /\ succeeded_at' = Some(vi)
            /\ gpc' = "validate"
            /\ UNCHANGED <<vi, geo_stats>>
       ELSE IF Val(result).status = "rate_limited"
       THEN /\ geo_stats' = [geo_stats EXCEPT !.rate_limited = @ + 1]
            /\ geocoding_result' = result
            /\ gpc' = "validate"
            /\ UNCHANGED <<vi, succeeded_at>>
       ELSE /\ vi' = vi + 1
            /\ gpc' = "variation"
            /\ UNCHANGED <<geocoding_result, succeeded_at, geo_stats>>
    /\ UNCHANGED <<geocoding_enabled, calls, outlet_data, variations, retry_count,
                   result, enhanced_outlet, returned, since_last, since_request,
                   last_gap, in_flight, queried, attempts, sent, last_outcome,
                   limited_at>>
    /\ UNCHANGED <<orch_vars, run_vars, applied>>

\* geocode_outlet after _try_geocoding_variations returned
FinishGeocodeOutlet ==
    /\ gpc = "validate"
    /\ enhanced_outlet' = Some(geocode_outlet(outlet_data, geocoding_result))
    /\ gpc' = "geocoded"
    /\ UNCHANGED <<geocoding_enabled, calls, outlet_data, variations, vi, retry_count,
                   result, geocoding_result, returned, geo_stats, since_last,
                   since_request, last_gap, in_flight, queried, attempts, sent,
                   last_outcome, limited_at, succeeded_at>>
    /\ UNCHANGED <<orch_vars, run_vars, applied>>

(***************************************************************************)
(* McDonaldMalaysiaScraper._add_geocoding after geocode_outlet returned.   *)
(***************************************************************************)
AddGeocodingStats(counters, enhanced) ==
    IF Succeeded(enhanced)
    THEN [counters EXCEPT
            !.geocoding_successful = @ + 1,
            !.waze_coordinates_extracted =
                IF Val(enhanced.geocoding).location_type = "waze_link"
                THEN @ + 1 ELSE @]
    ELSE [counters EXCEPT !.geocoding_failed = @ + 1]

AddGeocodingResult(data, enhanced) ==
    IF Succeeded(enhanced) THEN enhanced ELSE data

\* the locals of the three functions are gone once _add_geocoding returns
AddGeocodingReturn ==
    /\ gpc = "geocoded"
    /\ geo_stats' = AddGeocodingStats(geo_stats, Val(enhanced_outlet))
    /\ returned' = Some(AddGeocodingResult(outlet_data, Val(enhanced_outlet)))
    /\ gpc' = "idle"
    /\ variations' = <<>>
    /\ vi' = 0
    /\ retry_count' = 0
    /\ result' = None
    /\ geocoding_result' = None
    /\ queried' = <<>>
    /\ attempts' = 0
    /\ sent' = 0
    /\ last_outcome' = "none"
    /\ limited_at' = None
    /\ succeeded_at' = None
    /\ UNCHANGED <<geocoding_enabled, calls, outlet_data, enhanced_outlet, since_last,
                   since_request, last_gap, in_flight>>
    /\ UNCHANGED <<orch_vars, run_vars, applied>>

Latencies == 1..MaxLatency
(***************************************************************************)
(* The page the scraper reads.  A container carries the name and address   *)
(* its text yields, what clicking its Waze button does in the browser      *)
(* ("none": no button, "request": a request the route handler sees,        *)
(* "popup": a new tab, "dead": nothing), and the link behind the button.   *)
(***************************************************************************)
MaxRuns == 2            \* calls of scrape_outlets on one instance
MaxContainers == 2      \* containers, or elements, on the page of one run
MaxPending == 1         \* requests no click caused, pending or captured, at a time

LinkOther ==
    [url |-> "https://www.mcdonalds.com.my/api/locations",
     matches |-> <<None, None, None, None, None, None, None, None, None>>]

\* self.locate_url, the page of the outlets
LocatePage ==
    [url |-> "https://www.mcdonalds.com.my/locate-us",
     matches |-> <<None, None, None, None, None, None, None, None, None>>]

Container(name, address, button, link) ==
    [name |-> name, address |-> address, button |-> button, link |-> link]

Containers ==
    { Container(NameKLCC, AddressCity, "request", LinkLiveMap),
      Container(NameKLCC, AddressCity, "none", NoLink),
      Container(NameTitiwangsa, AddressTitiwangsa, "popup", LinkPenang),
      Container(NameTitiwangsa, NoAddress, "dead", NoLink),
      Container(NoName, NoAddress, "none", NoLink) }

\* 'waze.com' in url or 'waze://' in url
IsWaze(link) == link \in WazeLinks \ {NoLink}

NoClick == <<0, 0>>

Request(link, cause) == [link |-> link, cause |-> cause]

\* the URLs the page requests of itself: its own API, and a Waze URL
PageLinks == {LinkOther, LinkLiveMap}

\* every request the browser can issue
Requests ==
    { Request(link, NoClick) : link \in PageLinks }
    \cup { Request(c.link, <<r, k>>) :
              c \in Containers, r \in 1..MaxRuns, k \in 1..MaxContainers }

ZeroStats == [unique_outlets |-> 0, duplicates_skipped |-> 0, total_found |-> 0]

\* self.page, self.context and self.browser: None, open, or closed
NoHandles == [page |-> "none", context |-> "none", browser |-> "none"]

ZeroSaveStats == [successfully_saved |-> 0, database_errors |-> 0]

\* 'start_time': None, 'end_time': None, 'total_runtime': 0
ZeroTimes == [start_time |-> None, end_time |-> None, total_runtime |-> 0]

\* no call of scrape_outlets has ended yet
NoResult == [call |-> 0, ended |-> "none", value |-> None]

NotApplied == [fn |-> "none", args |-> <<>>, value |-> None]

ScraperInit ==
    /\ run = 0
    /\ pc = "ready"
    /\ n_containers = 0
    /\ i = 0
    /\ container_data = NoOutlet
    /\ outlets = <<>>
    /\ processed_outlets = {}
    /\ stats = ZeroStats
    /\ captured_urls = <<>>
    /\ pending = {}
    /\ popups = <<>>
    /\ waze_url = None
    /\ checked = 0
    /\ failed = "none"
    /\ handles = NoHandles
    /\ db = {}
    /\ save_stats = ZeroSaveStats
    /\ times = ZeroTimes
    /\ scrape_result = NoResult
    /\ applied = NotApplied

\* the scraper as main() builds it, its database connection made
Init == GeoInit /\ ScraperInit /\ database_integration = TRUE

geo_locals ==
    <<gpc, calls, outlet_data, variations, vi, retry_count, result, geocoding_result,
      enhanced_outlet, returned, since_last, since_request, last_gap, in_flight,
      queried, attempts, sent, last_outcome, limited_at, succeeded_at>>

(***************************************************************************)
(* Pure parts of the orchestrator.                                         *)
(***************************************************************************)
\* outlet_key when the key takes in the Waze link too
outlet_key_WithLink(outlet) ==
    outlet.name.text \o "-" \o outlet.address.raw \o "-" \o outlet.waze_link.url

\* f"{outlet_data.get('name', '')}-{outlet_data.get('address', '')}"
outlet_key(outlet) == outlet.name.text \o "-" \o outlet.address.raw

_is_valid_outlet(outlet) ==
    /\ outlet.name.text # "" /\ outlet.address.raw # ""
    /\ outlet.name.mcdonalds
    /\ outlet.address.length >= 10

\* what _try_geocoding_variations can return for an outlet: None, or the
\* success result of one of the variations that are long enough
_try_geocoding_variations(outlet) ==
    LET vs == _generate_progressive_variations(_clean_address(outlet.address),
                                               outlet.name)
    IN  {None} \cup
        { Some(Result("success", Some(l.latitude), Some(l.longitude),
                      _calculate_confidence(l, vs[k]))) :
            l \in Locations, k \in {k \in 1..Len(vs) : ~TooShort(vs[k])} }

\* the results the geocoder can hand to geocode_outlet for an outlet
GeocodingResults(outlet) ==
    IF geocoding_enabled /\ NeedsAddressGeocoding(outlet)
    THEN _try_geocoding_variations(outlet) ELSE {None}

\* _add_geocoding, geocoded being what _try_geocoding_variations returned
_add_geocoding(outlet, geocoded) ==
    IF ~geocoding_enabled THEN outlet
    ELSE AddGeocodingResult(outlet, geocode_outlet(outlet, geocoded))
\* CheckDuplicate when a new key is not put into processed_outlets
CheckDuplicate_KeyNotRecorded(outlet) ==
    /\ checked' = checked + 1
    /\ IF outlet_key(outlet) \notin processed_outlets
       THEN /\ processed_outlets' = processed_outlets
            /\ outlets' = Append(outlets, outlet)
            /\ stats' = [stats EXCEPT !.unique_outlets = @ + 1]
       ELSE /\ stats' = [stats EXCEPT !.duplicates_skipped = @ + 1]
            /\ UNCHANGED <<processed_outlets, outlets>>

\* CheckDuplicate when the record of a duplicate key is appended all the same
CheckDuplicate_AppendsDuplicate(outlet) ==
    /\ checked' = checked + 1
    /\ IF outlet_key(outlet) \notin processed_outlets
       THEN /\ processed_outlets' = processed_outlets \cup {outlet_key(outlet)}
            /\ outlets' = Append(outlets, outlet)
            /\ stats' = [stats EXCEPT !.unique_outlets = @ + 1]
       ELSE /\ stats' = [stats EXCEPT !.duplicates_skipped = @ + 1]
            /\ outlets' = Append(outlets, outlet)
            /\ UNCHANGED processed_outlets

\* the duplicate check on the outlet _add_geocoding returned
CheckDuplicate(outlet) ==
    /\ checked' = checked + 1
    /\ IF outlet_key(outlet) \notin processed_outlets
       THEN /\ processed_outlets' = processed_outlets \cup {outlet_key(outlet)}
            /\ outlets' = Append(outlets, outlet)
            /\ stats' = [stats EXCEPT !.unique_outlets = @ + 1]
       ELSE /\ stats' = [stats EXCEPT !.duplicates_skipped = @ + 1]
            /\ UNCHANGED <<processed_outlets, outlets>>

\* _add_geocoding and the duplicate check, as both loops run them
GeocodeAndCheck(outlet, geocoded) ==
    /\ geocoded \in GeocodingResults(outlet)
    /\ geo_stats' =
          IF geocoding_enabled
          THEN AddGeocodingStats(geo_stats, geocode_outlet(outlet, geocoded))
          ELSE geo_stats
    /\ CheckDuplicate(_add_geocoding(outlet, geocoded))
(***************************************************************************)
(* McDonaldMalaysiaScraper.scrape_outlets, from the call up to the start   *)
(* of _extract_all_data: _init_browser opens a new page and                *)
(* _setup_navigation_interception empties captured_urls.                   *)
(***************************************************************************)
scrape_outlets ==
    /\ pc = "ready" /\ run < MaxRuns
    /\ run' = run + 1
    /\ outlets' = <<>>
    /\ captured_urls' = <<>>
    /\ pending' = {}
    /\ popups' = <<>>
    /\ pc' = "extract"
    /\ UNCHANGED <<n_containers, i, container_data, waze_url, processed_outlets,
                   stats, checked, geocoding_enabled, geo_stats, geo_locals, run_vars,
                   applied, failed>>

(***************************************************************************)
(* The browser: requests the page issues, and the route handler.           *)
(***************************************************************************)
BrowserOpen == pc \notin {"ready", "geocode"}

\* a request of the page that no click of the scraper caused
PageRequest(link) ==
    /\ BrowserOpen
    /\ Len(captured_urls) + Cardinality(pending) < MaxPending
    /\ Request(link, NoClick) \notin pending
    /\ pending' = pending \cup {Request(link, NoClick)}
    /\ UNCHANGED <<run, pc, n_containers, i, container_data, outlets,
                   processed_outlets, stats, captured_urls, popups, waze_url, checked,
                   geocoding_enabled, geo_stats, geo_locals, run_vars,
                   applied, failed>>

\* handle_route is run for a request: a Waze URL is appended
handle_route(request) ==
    /\ BrowserOpen
    /\ request \in pending
    /\ pending' = pending \ {request}
    /\ captured_urls' = IF IsWaze(request.link)
                        THEN Append(captured_urls, request) ELSE captured_urls
    /\ UNCHANGED <<run, pc, n_containers, i, container_data, outlets,
                   processed_outlets, stats, popups, waze_url, checked,
                   geocoding_enabled, geo_stats, geo_locals, run_vars,
                   applied, failed>>

(***************************************************************************)
(* _extract_outlets_sequentially.                                          *)
(***************************************************************************)
\* a selector matched enough containers
ContainersFound(count) ==
    /\ pc = "extract"
    /\ n_containers' = count
    /\ i' = 1
    /\ pc' = "container"
    /\ UNCHANGED <<run, container_data, outlets, processed_outlets, stats,
                   captured_urls, pending, popups, waze_url, checked,
                   geocoding_enabled, geo_stats, geo_locals, run_vars,
                   applied, failed>>

\* "if not outlet_containers: return []"
ContainersNotFound ==
    /\ pc = "extract"
    /\ pc' = "fallback"
    /\ UNCHANGED <<run, n_containers, i, container_data, outlets, processed_outlets,
                   stats, captured_urls, pending, popups, waze_url, checked,
                   geocoding_enabled, geo_stats, geo_locals, run_vars,
                   applied, failed>>

\* "if not outlet_data or not outlet_data.get('name'): continue"
SkipContainer(c) ==
    /\ pc = "container" /\ i <= n_containers
    /\ c.name.text = ""
    /\ i' = i + 1
    /\ UNCHANGED <<run, pc, n_containers, container_data, outlets, processed_outlets,
                   stats, captured_urls, pending, popups, waze_url, checked,
                   geocoding_enabled, geo_stats, geo_locals, run_vars,
                   applied, failed>>

\* _click_waze_in_container finds no button: "return None"
NoWazeButton(c) ==
    /\ pc = "container" /\ i <= n_containers
    /\ c.name.text # ""
    /\ c.button = "none"
    /\ container_data' = OutletData(c.name, c.address, NoLink)
    /\ waze_url' = None
    /\ failed' = "none"
    /\ pc' = "geocode"
    /\ UNCHANGED <<run, n_containers, i, outlets, processed_outlets, stats,
                   captured_urls, pending, popups, checked, geocoding_enabled,
                   geo_stats, geo_locals, run_vars, applied>>

\* _click_waze_in_container empties captured_urls and clicks the button
ClickWaze(c) ==
    /\ pc = "container" /\ i <= n_containers
    /\ c.name.text # ""
    /\ c.button # "none"
    /\ container_data' = OutletData(c.name, c.address, NoLink)
    /\ captured_urls' = <<>>
    /\ pending' = IF c.button = "request"
                  THEN pending \cup {Request(c.link, <<run, i>>)} ELSE pending
    /\ popups' = IF c.button = "popup"
                 THEN Append(popups, Request(c.link, <<run, i>>)) ELSE popups
    /\ waze_url' = None
    /\ failed' = "none"
    /\ pc' = "sleeping"
    /\ UNCHANGED <<run, n_containers, i, outlets, processed_outlets, stats, checked,
                   geocoding_enabled, geo_stats, geo_locals, run_vars, applied>>

\* _extract_data_from_container: text_content() or inner_html() raises, the
\* function returns None and the loop goes on with the next container
ExtractionRaises(c) ==
    /\ pc = "container" /\ i <= n_containers
    /\ i' = i + 1
    /\ UNCHANGED <<run, pc, n_containers, container_data, outlets, processed_outlets,
                   stats, captured_urls, pending, popups, waze_url, checked, failed,
                   geocoding_enabled, geo_stats, geo_locals, run_vars, applied>>

\* ClickRaises when an exception of the click ends the loop over containers
ClickRaises_Aborts(c, at) ==
    /\ pc = "container" /\ i <= n_containers
    /\ c.name.text # ""
    /\ at = "click" => c.button # "none"
    /\ container_data' = OutletData(c.name, c.address, NoLink)
    /\ captured_urls' = IF at = "click" THEN <<>> ELSE captured_urls
    /\ waze_url' = None
    /\ failed' = at
    /\ pc' = "report"
    /\ UNCHANGED <<run, n_containers, i, outlets, processed_outlets, stats, pending,
                   popups, checked, geocoding_enabled, geo_stats, geo_locals, run_vars,
                   applied>>

\* _click_waze_in_container: a query_selector, or the click itself (a
\* timeout among the causes), raises; "except Exception" and "return None"
ClickRaises(c, at) ==
    /\ pc = "container" /\ i <= n_containers
    /\ c.name.text # ""
    /\ at = "click" => c.button # "none"
    /\ container_data' = OutletData(c.name, c.address, NoLink)
    /\ captured_urls' = IF at = "click" THEN <<>> ELSE captured_urls
    /\ waze_url' = None
    /\ failed' = at
    /\ pc' = "geocode"
    /\ UNCHANGED <<run, n_containers, i, outlets, processed_outlets, stats, pending,
                   popups, checked, geocoding_enabled, geo_stats, geo_locals, run_vars,
                   applied>>

\* _click_waze_in_container when the tabs are looked at before the captured
\* URLs
_click_waze_in_container_TabsFirst(captured, tabs, current) ==
    IF tabs # <<>> /\ IsWaze(tabs[Len(tabs)].link)
    THEN Some(tabs[Len(tabs)])
    ELSE IF captured # <<>>
         THEN Some(captured[Len(captured)])
         ELSE IF IsWaze(current.link) THEN Some(current) ELSE None

\* _click_waze_in_container after the sleep: what it returns for the URLs
\* captured since the click, the tabs of the context beside the main page
\* (pages[1:]) and the URL of the main page.  Every Waze link of the model
\* is a waze.com link, so 'waze.com' in current_url is IsWaze.
_click_waze_in_container(captured, tabs, current) ==
    IF captured # <<>>
    THEN Some(captured[Len(captured)])
    ELSE IF tabs # <<>> /\ IsWaze(tabs[Len(tabs)].link)
         THEN Some(tabs[Len(tabs)])
         ELSE IF IsWaze(current.link) THEN Some(current) ELSE None

\* the main page when no click navigates it: it stays on locate_url
OnLocatePage == Request(LocatePage, NoClick)

\* what _click_waze_in_container returns after the sleep
Captured == _click_waze_in_container(captured_urls, popups, OnLocatePage)

\* AfterSleep when an outlet whose click resolved no URL is dropped
AfterSleep_DropsWithoutLink ==
    /\ pc = "sleeping"
    /\ waze_url' = Captured
    /\ popups' = IF captured_urls = <<>> /\ popups # <<>>
                 THEN SubSeq(popups, 1, Len(popups) - 1) ELSE popups
    /\ container_data' = IF Captured # None
                         THEN [container_data EXCEPT !.waze_link = Val(Captured).link]
                         ELSE container_data
    /\ i' = IF Captured # None THEN i ELSE i + 1
    /\ pc' = IF Captured # None THEN "geocode" ELSE "container"
    /\ UNCHANGED <<run, n_containers, outlets, processed_outlets, stats,
                   captured_urls, pending, checked, geocoding_enabled, geo_stats,
                   geo_locals, run_vars, applied, failed>>

\* the sleep is over: captured_urls[-1], or the URL of the newest tab
AfterSleep ==
    /\ pc = "sleeping"
    /\ waze_url' = Captured
    /\ popups' = IF captured_urls = <<>> /\ popups # <<>>
                 THEN SubSeq(popups, 1, Len(popups) - 1) ELSE popups
    /\ container_data' = IF Captured # None
                         THEN [container_data EXCEPT !.waze_link = Val(Captured).link]
                         ELSE container_data
    /\ pc' = "geocode"
    /\ UNCHANGED <<run, n_containers, i, outlets, processed_outlets, stats,
                   captured_urls, pending, checked, geocoding_enabled, geo_stats,
                   geo_locals, run_vars, applied, failed>>

\* _add_geocoding and the duplicate check of the container
AddOutlet ==
    /\ pc = "geocode"
    /\ \E geocoded \in GeocodingResults(container_data) :
          GeocodeAndCheck(container_data, geocoded)
    /\ i' = i + 1
    /\ pc' = "container"
    /\ UNCHANGED <<run, n_containers, container_data, captured_urls, pending, popups,
                   waze_url, failed, geocoding_enabled, geo_locals, run_vars, applied>>

\* the loop is over; _extract_all_data returns the outlets if there are any
SequentialDone ==
    /\ pc = "container" /\ i > n_containers
    /\ failed' = "none"
    /\ pc' = IF outlets # <<>> THEN "report" ELSE "fallback"
    /\ UNCHANGED <<run, n_containers, i, container_data, outlets, processed_outlets,
                   stats, captured_urls, pending, popups, waze_url, checked,
                   geocoding_enabled, geo_stats, geo_locals, run_vars, applied>>

(***************************************************************************)
(* _extract_all_data: the fallback over the elements of the page.          *)
(***************************************************************************)
ElementsFound(count) ==
    /\ pc = "fallback"
    /\ outlets' = <<>>
    /\ n_containers' = count
    /\ i' = 1
    /\ pc' = "element"
    /\ UNCHANGED <<run, container_data, processed_outlets, stats, captured_urls,
                   pending, popups, waze_url, checked, geocoding_enabled, geo_stats,
                   geo_locals, run_vars, applied, failed>>

\* the outlet of an element or of a block is not valid
SkipElement(c) ==
    /\ pc = "element" /\ i <= n_containers
    /\ ~_is_valid_outlet(OutletData(c.name, c.address, c.link))
    /\ i' = i + 1
    /\ UNCHANGED <<run, pc, n_containers, container_data, outlets, processed_outlets,
                   stats, captured_urls, pending, popups, waze_url, checked,
                   geocoding_enabled, geo_stats, geo_locals, run_vars,
                   applied, failed>>

\* a valid outlet, with the link its text or HTML holds
FallbackOutlet(c) ==
    /\ pc = "element" /\ i <= n_containers
    /\ _is_valid_outlet(OutletData(c.name, c.address, c.link))
    /\ \E geocoded \in GeocodingResults(OutletData(c.name, c.address, c.link)) :
          GeocodeAndCheck(OutletData(c.name, c.address, c.link), geocoded)
    /\ i' = i + 1
    /\ UNCHANGED <<run, pc, n_containers, container_data, captured_urls, pending,
                   popups, waze_url, geocoding_enabled, geo_locals, run_vars,
                   applied, failed>>

\* "self.stats['total_found'] = len(outlets)"
FallbackDone ==
    /\ pc = "element" /\ i > n_containers
    /\ stats' = [stats EXCEPT !.total_found = Len(outlets)]
    /\ pc' = "report"
    /\ UNCHANGED <<run, n_containers, i, container_data, outlets, processed_outlets,
                   captured_urls, pending, popups, waze_url, checked,
                   geocoding_enabled, geo_stats, geo_locals, run_vars,
                   applied, failed>>

(***************************************************************************)
(* scrape_outlets after _single_pass_scrape: _cleanup closes the browser.  *)
(***************************************************************************)
ScrapeReturn ==
    /\ pc = "report"
    /\ pending' = {}
    /\ popups' = <<>>
    /\ failed' = "none"
    /\ pc' = "ready"
    \* the locals are gone once scrape_outlets has returned
    /\ outlets' = <<>>
    /\ n_containers' = 0
    /\ i' = 0
    /\ container_data' = NoOutlet
    /\ waze_url' = None
    /\ UNCHANGED <<run, processed_outlets, stats, captured_urls, checked,
                   geocoding_enabled, geo_stats, geo_locals, run_vars, applied>>

Next ==
    \/ scrape_outlets
    \/ \E link \in PageLinks : PageRequest(link)
    \/ \E request \in Requests : handle_route(request)
    \/ \E count \in 1..MaxContainers : ContainersFound(count)
    \/ ContainersNotFound
    \/ \E c \in Containers : SkipContainer(c)
    \/ \E c \in Containers : NoWazeButton(c)
    \/ \E c \in Containers : ExtractionRaises(c)
    \/ \E c \in Containers : ClickWaze(c)
    \/ \E c \in Containers, at \in {"query_selector", "click"} : ClickRaises(c, at)
    \/ AfterSleep
    \/ AddOutlet
    \/ SequentialDone
    \/ \E count \in 0..MaxContainers : ElementsFound(count)
    \/ \E c \in Containers : SkipElement(c)
    \/ \E c \in Containers : FallbackOutlet(c)
    \/ FallbackDone
    \/ ScrapeReturn

Spec == Init /\ [][Next]_vars
(***************************************************************************)
(* One call of scrape_outlets stage by stage, as its caller sees it: the   *)
(* stages of _single_pass_scrape with their failures, _save_to_database    *)
(* outlet by outlet, _generate_report, _cleanup and the return.  The       *)
(* extraction is one step here; the steps inside it are the actions above. *)
(***************************************************************************)
\* datetime.now() at the k-th reading of the r-th call: later is larger
Clock(r, k) == 2 * (r - 1) + k

\* outlets _extract_all_data can hand back
RunOutlets ==
    { OutletData(NameKLCC, AddressCity, LinkLiveMap),
      OutletData(NameKLCC, AddressAmpang, NoLink),
      OutletData(NameTitiwangsa, NoAddress, NoLink) }

\* the lists _extract_all_data can return when seen are the keys seen so
\* far: outlets of pairwise different keys, none of them seen before
ScrapedLists(seen) ==
    { list \in UNION { [1..len -> RunOutlets] : len \in 0..MaxContainers } :
        /\ \A k \in DOMAIN list : outlet_key(list[k]) \notin seen
        /\ \A k, l \in DOMAIN list :
              outlet_key(list[k]) = outlet_key(list[l]) => k = l }

\* models.validate_outlet_data: None stands for the ValueError it raises
validate_outlet_data(outlet) ==
    IF outlet.name.text = "" \/ outlet.address.raw = ""
    THEN None
    ELSE Some([name |-> IF outlet.name.mcdonalds THEN outlet.name.text
                        ELSE "McDonald's " \o outlet.name.text,
               address |-> outlet.address.raw])

\* _check_outlet_exists_in_db: "return count > 0", or False when the query
\* raised
_check_outlet_exists_in_db(outlet_name, rows, query_raises) ==
    IF query_raises THEN FALSE ELSE outlet_name \in rows

\* OutletDatabase.insert_outlet: the row id, or None after any exception,
\* the UNIQUE constraint on name among them; nothing is raised to the caller
insert_outlet(clean_data, rows, execute_raises) ==
    IF clean_data.name \in rows \/ execute_raises
    THEN [outlet_id |-> None, raised |-> None]
    ELSE [outlet_id |-> Some(Cardinality(rows) + 1), raised |-> None]

\* self.stats as the result of scrape_outlets carries it
Statistics(counters, geo_counters, save_counters, clock) ==
    [unique_outlets |-> counters.unique_outlets,
     duplicates_skipped |-> counters.duplicates_skipped,
     total_found |-> counters.total_found,
     geocoding_successful |-> geo_counters.geocoding_successful,
     geocoding_failed |-> geo_counters.geocoding_failed,
     successfully_saved |-> save_counters.successfully_saved,
     database_errors |-> save_counters.database_errors,
     start_time |-> clock.start_time,
     end_time |-> clock.end_time,
     total_runtime |-> clock.total_runtime]

\* "self.stats['start_time'] = datetime.now()", "outlets = []"
ScrapeOutletsCalled ==
    /\ pc = "ready" /\ run < MaxRuns
    /\ run' = run + 1
    /\ times' = [times EXCEPT !.start_time = Some(Clock(run + 1, 1))]
    /\ outlets' = <<>>
    /\ pc' = "init_browser"
    /\ UNCHANGED <<n_containers, i, container_data, processed_outlets, stats,
                   captured_urls, pending, popups, waze_url, checked, failed>>
    /\ UNCHANGED <<database_integration, handles, db, save_stats, scrape_result>>
    /\ UNCHANGED <<geo_vars, applied>>

\* _init_browser: raised names the call that raised ("none": none did)
_init_browser(raised) ==
    /\ pc = "init_browser"
    /\ handles' =
          CASE raised = "launch" -> handles
            [] raised = "new_context" -> [handles EXCEPT !.browser = "open"]
            [] raised = "new_page" ->
                  [handles EXCEPT !.browser = "open", !.context = "open"]
            [] OTHER -> [page |-> "open", context |-> "open", browser |-> "open"]
    /\ captured_urls' = IF raised \in {"route", "none"} THEN <<>> ELSE captured_urls
    /\ pc' = IF raised = "none" THEN "navigate" ELSE "cleanup"
    /\ UNCHANGED <<run, n_containers, i, container_data, outlets, processed_outlets,
                   stats, pending, popups, waze_url, checked, failed>>
    /\ UNCHANGED <<database_integration, db, save_stats, times, scrape_result>>
    /\ UNCHANGED <<geo_vars, applied>>

\* _navigate_and_setup: both goto calls, or a wait_for_selector, may raise
_navigate_and_setup(raises) ==
    /\ pc = "navigate"
    /\ pc' = IF raises THEN "cleanup" ELSE "filter"
    /\ UNCHANGED <<orch_vars_but_pc, run_vars, geo_vars, applied>>

\* _apply_filter: select_option or click may raise
_apply_filter(raises) ==
    /\ pc = "filter"
    /\ pc' = IF raises THEN "cleanup" ELSE "scrape"
    /\ UNCHANGED <<orch_vars_but_pc, run_vars, geo_vars, applied>>

\* _extract_all_data returns found; every failure inside it is handled there
_extract_all_data(found) ==
    /\ pc = "scrape"
    /\ found \in ScrapedLists(processed_outlets)
    /\ outlets' = found
    /\ processed_outlets' =
          processed_outlets \cup { outlet_key(found[k]) : k \in DOMAIN found }
    /\ stats' = [stats EXCEPT !.unique_outlets = @ + Len(found)]
    /\ checked' = checked + Len(found)
    /\ i' = 1
    \* "if self.database_integration and outlets:"
    /\ pc' = IF database_integration /\ found # <<>> THEN "save" ELSE "generate_report"
    /\ UNCHANGED <<run, n_containers, container_data, captured_urls, pending, popups,
                   waze_url, failed>>
    /\ UNCHANGED <<run_vars, geo_vars, applied>>

\* a row another session writes to the outlets table
OtherWriter(outlet_name) ==
    /\ pc \in {"scrape", "save"}
    /\ outlet_name \notin db
    /\ db' = db \cup {outlet_name}
    /\ UNCHANGED <<database_integration, handles, save_stats, times, scrape_result>>
    /\ UNCHANGED <<orch_vars, geo_vars, applied>>

\* SaveOutlet when an outlet that fails validation is not counted
SaveOutlet_ErrorNotCounted(query_raises, execute_raises) ==
    /\ pc = "save" /\ i <= Len(outlets)
    /\ LET clean_data == validate_outlet_data(outlets[i])
           existing_outlet ==
               _check_outlet_exists_in_db(Val(clean_data).name, db, query_raises)
           inserted == insert_outlet(Val(clean_data), db, execute_raises)
       IN  IF clean_data = None
           THEN \* "except Exception as e": the validation error
                /\ UNCHANGED <<db, stats, save_stats>>
           ELSE IF existing_outlet
           THEN /\ stats' = [stats EXCEPT !.duplicates_skipped = @ + 1]
                /\ UNCHANGED <<db, save_stats>>
           ELSE IF inserted.raised # None
           THEN \* "except Exception as db_error"
                /\ IF Val(inserted.raised) = "UNIQUE constraint failed"
                   THEN /\ stats' = [stats EXCEPT !.duplicates_skipped = @ + 1]
                        /\ UNCHANGED save_stats
                   ELSE /\ save_stats' = [save_stats EXCEPT !.database_errors = @ + 1]
                        /\ UNCHANGED stats
                /\ UNCHANGED db
           ELSE IF inserted.outlet_id # None
           THEN /\ save_stats' = [save_stats EXCEPT !.successfully_saved = @ + 1]
                /\ db' = db \cup {Val(clean_data).name}
                /\ UNCHANGED stats
           ELSE /\ save_stats' = [save_stats EXCEPT !.database_errors = @ + 1]
                /\ UNCHANGED <<db, stats>>
    /\ i' = i + 1
    /\ UNCHANGED <<run, pc, n_containers, container_data, outlets, processed_outlets,
                   captured_urls, pending, popups, waze_url, checked, failed>>
    /\ UNCHANGED <<database_integration, handles, times, scrape_result>>
    /\ UNCHANGED <<geo_vars, applied>>

\* _save_to_database: one turn of "for outlet in outlets"
SaveOutlet(query_raises, execute_raises) ==
    /\ pc = "save" /\ i <= Len(outlets)
    /\ LET clean_data == validate_outlet_data(outlets[i])
           existing_outlet ==
               _check_outlet_exists_in_db(Val(clean_data).name, db, query_raises)
           inserted == insert_outlet(Val(clean_data), db, execute_raises)
       IN  IF clean_data = None
           THEN \* "except Exception as e": the validation error
                /\ save_stats' = [save_stats EXCEPT !.database_errors = @ + 1]
                /\ UNCHANGED <<db, stats>>
           ELSE IF existing_outlet
           THEN /\ stats' = [stats EXCEPT !.duplicates_skipped = @ + 1]
                /\ UNCHANGED <<db, save_stats>>
           ELSE IF inserted.raised # None
           THEN \* "except Exception as db_error"
                /\ IF Val(inserted.raised) = "UNIQUE constraint failed"
                   THEN /\ stats' = [stats EXCEPT !.duplicates_skipped = @ + 1]
                        /\ UNCHANGED save_stats
                   ELSE /\ save_stats' = [save_stats EXCEPT !.database_errors = @ + 1]
                        /\ UNCHANGED stats
                /\ UNCHANGED db
           ELSE IF inserted.outlet_id # None
           THEN /\ save_stats' = [save_stats EXCEPT !.successfully_saved = @ + 1]
                /\ db' = db \cup {Val(clean_data).name}
                /\ UNCHANGED stats
           ELSE /\ save_stats' = [save_stats EXCEPT !.database_errors = @ + 1]
                /\ UNCHANGED <<db, stats>>
    /\ i' = i + 1
    /\ UNCHANGED <<run, pc, n_containers, container_data, outlets, processed_outlets,
                   captured_urls, pending, popups, waze_url, checked, failed>>
    /\ UNCHANGED <<database_integration, handles, times, scrape_result>>
    /\ UNCHANGED <<geo_vars, applied>>

\* the loop of _save_to_database is over
SaveDone ==
    /\ pc = "save" /\ i > Len(outlets)
    /\ pc' = "generate_report"
    /\ UNCHANGED <<orch_vars_but_pc, run_vars, geo_vars, applied>>

\* _generate_report only logs
_generate_report ==
    /\ pc = "generate_report"
    /\ pc' = "cleanup"
    /\ UNCHANGED <<orch_vars_but_pc, run_vars, geo_vars, applied>>

\* the handles after _cleanup closed those before `raised` ("none": all)
Closed(raised) ==
    LET close(h) == IF h = "none" THEN "none" ELSE "closed"
    IN  CASE raised = "page" -> handles
          [] raised = "context" -> [handles EXCEPT !.page = close(@)]
          [] raised = "browser" ->
                [handles EXCEPT !.page = close(@), !.context = close(@)]
          [] OTHER -> [page |-> close(handles.page), context |-> close(handles.context),
                       browser |-> close(handles.browser)]

\* the "finally" of scrape_outlets and its return: _cleanup closes the page,
\* the context and the browser when they are set; a close that raises
\* leaves the "finally" at once, and the exception reaches the caller
_cleanup(raised) ==
    /\ pc = "cleanup"
    /\ raised # "none" => handles[raised] # "none"
    /\ handles' = Closed(raised)
    /\ times' = IF raised # "none" THEN times
                ELSE [times EXCEPT
                         !.end_time = Some(Clock(run, 2)),
                         !.total_runtime = Clock(run, 2) - Val(times.start_time)]
    /\ scrape_result' =
          IF raised # "none"
          THEN [call |-> run, ended |-> "raised", value |-> None]
          ELSE [call |-> run, ended |-> "returned",
                value |-> Some([outlets |-> outlets,
                                statistics |->
                                    Statistics(stats, geo_stats, save_stats, times')])]
    /\ pc' = "ready"
    /\ pending' = {}
    /\ popups' = <<>>
    \* the locals are gone once scrape_outlets has ended
    /\ outlets' = <<>>
    /\ i' = 0
    /\ UNCHANGED <<run, n_containers, container_data, processed_outlets, stats,
                   captured_urls, waze_url, checked, failed>>
    /\ UNCHANGED <<database_integration, db, save_stats>>
    /\ UNCHANGED <<geo_vars, applied>>

RunNext ==
    \/ ScrapeOutletsCalled
    \/ \E raised \in {"none", "launch", "new_context", "new_page", "route"} :
          _init_browser(raised)
    \/ \E raises \in BOOLEAN : _navigate_and_setup(raises)
    \/ \E raises \in BOOLEAN : _apply_filter(raises)
    \/ \E found \in ScrapedLists({}) : _extract_all_data(found)
    \/ \E outlet_name \in { o.name.text : o \in RunOutlets } : OtherWriter(outlet_name)
    \/ \E query_raises, execute_raises \in BOOLEAN :
          SaveOutlet(query_raises, execute_raises)
    \/ SaveDone
    \/ _generate_report
    \/ \E raised \in {"none", "page", "context", "browser"} : _cleanup(raised)

\* the scraper as constructed, with or without its database connection
RunInit == GeoInit /\ ScraperInit /\ database_integration \in BOOLEAN

SpecRun == RunInit /\ [][RunNext]_vars
(***************************************************************************)
(* The pure functions of the validator and of the geocoder, each applied   *)
(* to inputs drawn from a grid around the values its code compares with.   *)
(***************************************************************************)
\* latitudes and longitudes (hundredths of a degree) on both sides of every
\* bound of KL_BOUNDS and KL_CENTRAL_BOUNDS, with few and with many decimals
GridLatitudes == {289, 290, 299, 300, 312, 325, 326, 340, 341}
GridLongitudes == {10149, 10150, 10159, 10160, 10170, 10180, 10181, 10190, 10191}
GridDecimals == {2, 7}

Applied(fn, args, value) == [fn |-> fn, args |-> args, value |-> value]

\* KLCoordinateValidator.validate_coordinates is called
ApplyValidateCoordinates(latitude, longitude) ==
    /\ applied = NotApplied
    /\ applied' = Applied("validate_coordinates", <<latitude, longitude>>,
                          validate_coordinates(latitude, longitude))
    /\ UNCHANGED <<geo_vars, orch_vars, run_vars>>

\* an outlet the click gave no link for
OutletWithoutLink == OutletData(NameKLCC, AddressCity, NoLink)

\* the confidences geocode_address can return, in hundredths
Confidences == 0..100

\* McDonaldGeocoder.geocode_outlet is called for an outlet without link, and
\* _try_geocoding_variations returns geocoding_result
ApplyGeocodeOutlet(outlet, geocoded) ==
    /\ applied = NotApplied
    /\ applied' = Applied("geocode_outlet", <<outlet, geocoded>>,
                          geocode_outlet(outlet, geocoded))
    /\ UNCHANGED <<geo_vars, orch_vars, run_vars>>

\* a pair inside the country bounds and a pair outside them
CapturedPairs == {<<315, 10171>>, <<1375, 10050>>}

\* links by what each of the nine patterns captures in them, for the links
\* that at most two of the patterns match
PatternLinks ==
    { [url |-> "https://waze.com/ul",
       matches |-> [p \in 1..9 |-> IF p = first.p THEN Some(first.pair)
                                   ELSE IF p = second.p THEN second.capture
                                   ELSE None]] :
        first \in [p : 1..9, pair : CapturedPairs],
        second \in [p : 1..9,
                    capture : {None} \cup {Some(pair) : pair \in CapturedPairs}] }

\* McDonaldGeocoder._extract_coordinates_from_waze_link is called
ApplyExtractCoordinates(waze_link) ==
    /\ applied = NotApplied
    /\ applied' = Applied("_extract_coordinates_from_waze_link", <<waze_link>>,
                          _extract_coordinates_from_waze_link(waze_link))
    /\ UNCHANGED <<geo_vars, orch_vars, run_vars>>

\* the addresses _clean_address is given
Addresses == {NoAddress, AddressAmpang, AddressTitiwangsa, AddressCity, AddressSuria}

\* McDonaldGeocoder._clean_address is called
ApplyCleanAddress(address) ==
    /\ applied = NotApplied
    /\ applied' = Applied("_clean_address", <<address>>, _clean_address(address))
    /\ UNCHANGED <<geo_vars, orch_vars, run_vars>>
(***************************************************************************)
(* _extract_outlets_sequentially: the search for the containers.  found[k] *)
(* is what query_selector_all gives for the k-th selector of               *)
(* selectors_to_try: the number of elements it matched, or None when it    *)
(* raised.                                                                 *)
(***************************************************************************)
N_SELECTORS == 8        \* len(selectors_to_try)
MIN_CONTAINERS == 10    \* "len(containers) > 10"

\* the numbers of elements a selector can match
MatchCounts == {0, 10, 11, 50}

\* what the selectors find on a page where at most two of them match anything
\* or raise
SelectorResults ==
    { [k \in 1..N_SELECTORS |-> IF k = first.k THEN first.found
                                ELSE IF k = second.k THEN second.found
                                ELSE Some(0)] :
        first \in [k : 1..N_SELECTORS, found : {None} \cup {Some(m) : m \in MatchCounts}],
        second \in [k : 1..N_SELECTORS, found : {None} \cup {Some(m) : m \in MatchCounts}] }

RECURSIVE LocateContainers_AtLeast(_, _)
\* LocateContainers when the threshold itself is enough
LocateContainers_AtLeast(found, k) ==
    IF k > Len(found) THEN None
    ELSE IF found[k] # None /\ Val(found[k]) >= MIN_CONTAINERS
         THEN Some([selector |-> k, count |-> Val(found[k])])
         ELSE LocateContainers_AtLeast(found, k + 1)

RECURSIVE LocateContainers(_, _)
\* the loop over selectors_to_try from the k-th selector on: the selector
\* whose containers are used and their number, None for "return []"
LocateContainers(found, k) ==
    IF k > Len(found) THEN None
    ELSE IF found[k] # None /\ Val(found[k]) > MIN_CONTAINERS
         THEN Some([selector |-> k, count |-> Val(found[k])])
         ELSE LocateContainers(found, k + 1)

\* _extract_all_data: "if outlets: return outlets", else the fallback;
\* without containers _extract_outlets_sequentially returned []
ExtractionPath(located, n_outlets) ==
    IF located # None /\ n_outlets > 0 THEN "sequential" ELSE "fallback"

\* _extract_all_data is called on a page: the containers located, and the
\* path taken when the loop over them yields n_outlets outlets
ApplyLocateContainers(found, n_outlets) ==
    /\ applied = NotApplied
    /\ applied' = Applied("_extract_outlets_sequentially", <<found, n_outlets>>,
                          [containers |-> LocateContainers(found, 1),
                           path |-> ExtractionPath(LocateContainers(found, 1),
                                                   n_outlets)])
    /\ UNCHANGED <<geo_vars, orch_vars, run_vars>>
(***************************************************************************)
(* The handles the two loops iterate over.  A handle is an element of the  *)
(* page: the first 500 characters of its outer HTML, and whether reading   *)
(* its outer HTML raises.                                                  *)
(***************************************************************************)
MaxHandles == 3

Handles == [html : {"<div>A", "<div>B"}, raises : BOOLEAN]

\* the lists query_selector_all can return
HandleLists == UNION { [1..len -> Handles] : len \in 0..MaxHandles }

\* hash(element_html[:500]), and str(element) when outer_html() raises
ElementKey(handle) ==
    IF handle.raises THEN "JSHandle@" \o handle.html ELSE handle.html

RECURSIVE UniqueElements(_, _)
\* _extract_all_data: "Remove duplicates while preserving order"
UniqueElements(outlet_elements, seen_elements) ==
    IF outlet_elements = <<>> THEN <<>>
    ELSE IF ElementKey(Head(outlet_elements)) \notin seen_elements
         THEN <<Head(outlet_elements)>>
              \o UniqueElements(Tail(outlet_elements),
                                seen_elements \cup {ElementKey(Head(outlet_elements))})
         ELSE UniqueElements(Tail(outlet_elements), seen_elements)

\* the list a loop iterates over when query_selector_all returned elements:
\* _extract_outlets_sequentially takes the containers as they are,
\* _extract_all_data takes the unique elements
ApplyIteratedHandles(path, elements) ==
    /\ applied = NotApplied
    /\ applied' = Applied(path, <<elements>>,
                          IF path = "outlet_containers" THEN elements
                          ELSE UniqueElements(elements, {}))
    /\ UNCHANGED <<geo_vars, orch_vars, run_vars>>
(***************************************************************************)
(* _split_multiple_outlets, by the numbers of blocks: mcd_count is the     *)
(* number of times the text names the brand, primary and boundary are the  *)
(* numbers of blocks of the two splits that pass the filter into           *)
(* clean_blocks.  A block that passes names the brand, so neither number   *)
(* exceeds mcd_count.                                                      *)
(***************************************************************************)
MAX_BLOCKS == 100       \* "len(clean_blocks) <= 100"

\* numbers of blocks on both sides of every threshold
BlockCounts == {0, 1, 2, 100, 101}

\* the list returned: the text itself, or the clean blocks of a split
Blocks(of, length) == [of |-> of, length |-> length]

_split_multiple_outlets(mcd_count, primary, boundary) ==
    IF mcd_count <= 1 THEN Blocks("text", 1)
    ELSE IF primary > 1 THEN Blocks("primary", primary)
    ELSE IF boundary > 1 /\ boundary <= MAX_BLOCKS THEN Blocks("boundary", boundary)
    ELSE Blocks("text", 1)

ApplySplitMultipleOutlets(mcd_count, primary, boundary) ==
    /\ applied = NotApplied
    /\ primary <= mcd_count /\ boundary <= mcd_count
    /\ applied' = Applied("_split_multiple_outlets", <<mcd_count, primary, boundary>>,
                          _split_multiple_outlets(mcd_count, primary, boundary))
    /\ UNCHANGED <<geo_vars, orch_vars, run_vars>>
\* outlets whose names and addresses hold the separator of the key
KeyOutlets ==
    { OutletData(name, address, NoLink) :
        name \in {NameKLCC, NameSetia, NameSetiaAlam},
        address \in {AddressCity, AddressAlamSetia, AddressSetia} }

\* the duplicate check of one run meets first, then second: their keys, and
\* whether second is skipped as a duplicate
ApplyOutletKey(first, second) ==
    /\ applied = NotApplied
    /\ applied' = Applied("outlet_key", <<first, second>>,
                          [keys |-> <<outlet_key(first), outlet_key(second)>>,
                           skipped |-> outlet_key(second) \in {outlet_key(first)}])
    /\ UNCHANGED <<geo_vars, orch_vars, run_vars>>

\* sequences of at most two of the links, as requests
UpToTwo(links) ==
    LET requests == { Request(link, NoClick) : link \in links }
    IN  {<<>>} \cup { <<r>> : r \in requests }
               \cup { <<r1, r2>> : r1 \in requests, r2 \in requests }

\* handle_route appends Waze URLs only
CapturedLists == UpToTwo({LinkLiveMap, LinkPenang})

\* the tabs a click can leave beside the main page
TabLists == UpToTwo({LinkPenang, LinkOther})

\* the URLs of the main page after the click: unchanged, or navigated
\* in place
CurrentUrls == { Request(link, NoClick) : link \in {LocatePage, LinkAlternative, LinkOther} }

\* _click_waze_in_container has clicked and slept, and resolves the URL
ApplyClickWaze(captured, tabs, current) ==
    /\ applied = NotApplied
    /\ applied' = Applied("_click_waze_in_container", <<captured, tabs, current>>,
                          _click_waze_in_container(captured, tabs, current))
    /\ UNCHANGED <<geo_vars, orch_vars, run_vars>>

PureNext ==
    \/ \E first \in KeyOutlets, second \in KeyOutlets : ApplyOutletKey(first, second)
    \/ \E mcd_count \in BlockCounts, primary \in BlockCounts, boundary \in BlockCounts :
          ApplySplitMultipleOutlets(mcd_count, primary, boundary)
    \/ \E path \in {"outlet_containers", "outlet_elements"}, elements \in HandleLists :
          ApplyIteratedHandles(path, elements)
    \/ \E found \in SelectorResults, n_outlets \in 0..1 :
          ApplyLocateContainers(found, n_outlets)
    \/ \E captured \in CapturedLists, tabs \in TabLists, current \in CurrentUrls :
          ApplyClickWaze(captured, tabs, current)
    \/ \E address \in Addresses : ApplyCleanAddress(address)
    \/ \E waze_link \in WazeLinks \cup PatternLinks : ApplyExtractCoordinates(waze_link)
    \/ \E lat \in GridLatitudes, lng \in GridLongitudes, dlat, dlng \in GridDecimals :
          ApplyValidateCoordinates(Some(Float(lat, dlat)), Some(Float(lng, dlng)))
    \/ \E lat \in {312, 330, 341}, d \in GridDecimals, confidence \in Confidences :
          ApplyGeocodeOutlet(
              OutletWithoutLink,
              Some(Result("success", Some(Float(lat, d)), Some(Float(10170, 2)),
                          confidence)))

\* the functions applied read no field of the scraper or of the geocoder, so
\* one initial state stands for all
PureInit == Init /\ geocoding_enabled

SpecPure == PureInit /\ [][PureNext]_vars

GeoNext ==
    \/ \E o \in GeoOutlets : AddGeocodingDisabled(o)
    \/ \E o \in GeoOutlets, idle \in 0..DelayTicks : GeocodeOutlet(o, idle)
    \/ VariationsExhausted
    \/ SkipVariation
    \/ CallGeocodeAddress
    \/ SendRequest
    \/ MaxRetriesExceeded
    \/ \E l \in Locations, d \in Latencies : ReceiveLocation(l, d)
    \/ \E d \in Latencies : ReceiveNoResults(d)
    \/ \E d \in Latencies : ReceiveRateLimited(d)
    \/ ReceiveTimedOut
    \/ \E d \in Latencies : ReceiveServiceError(d)
    \/ \E d \in Latencies : ReceiveError(d)
    \/ AfterResult
    \/ FinishGeocodeOutlet
    \/ AddGeocodingReturn

SpecGeo == Init /\ [][GeoNext]_vars

\* the pipeline is straight-line synchronous code and geocoder.geocode is
\* called with a timeout: a step that can be taken is taken
SpecGeoLive == Init /\ [][GeoNext]_vars /\ WF_vars(GeoNext)

(***************************************************************************)
(* Properties of the geocoding pipeline.                                   *)
(***************************************************************************)
\* the records geocode_outlet and _add_geocoding have handed out
Produced ==
    (IF enhanced_outlet # None THEN {Val(enhanced_outlet)} ELSE {})
    \cup (IF returned # None THEN {Val(returned)} ELSE {})

HasCoordinates(outlet) == outlet.latitude # None /\ outlet.longitude # None

ValidatorAccepts(outlet) ==
    validate_coordinates(outlet.latitude, outlet.longitude).is_valid

LinkYieldsPair(outlet) ==
    _extract_coordinates_from_waze_link(outlet.waze_link) # <<None, None>>

\* C1: a record whose geocoding status is success has both latitude and
\* longitude set, the latitude within -90..90 and the longitude within
\* -180..180; a record that is not a success has neither latitude nor
\* longitude.  This holds on the Waze-link branch and on the address branch.
C1_StatusAgreesWithCoordinates ==
    \A outlet \in Produced :
        /\ Succeeded(outlet) =>
              /\ HasCoordinates(outlet)
              /\ Val(outlet.latitude).v >= -9000 /\ Val(outlet.latitude).v <= 9000
              /\ Val(outlet.longitude).v >= -18000 /\ Val(outlet.longitude).v <= 18000
        /\ ~Succeeded(outlet) =>
              outlet.latitude = None /\ outlet.longitude = None

\* the service found a pair, the validator rejected it, the record is failed
C1_Witness ==
    /\ gpc = "geocoded"
    /\ geocoding_result # None
    /\ Val(geocoding_result).status = "success"
    /\ enhanced_outlet # None
    /\ ~Succeeded(Val(enhanced_outlet))
    /\ Val(Val(enhanced_outlet).geocoding).reason = "Invalid coordinates"
    /\ Val(enhanced_outlet).latitude = None

\* C5 as stated: the validator is run on both branches, so that no record
\* carries a latitude and longitude the validator rejects.
C5_NoRejectedPairStored ==
    \A outlet \in Produced : HasCoordinates(outlet) => ValidatorAccepts(outlet)

\* C5: the validator is run on the result of address geocoding only: a pair
\* it rejects makes the record failed with no coordinates, and every pair
\* stored by that branch is one it accepts.  A pair taken from the Waze link
\* is checked against the bounds of the country alone.
C5_ValidatorOnAddressBranch ==
    /\ \A outlet \in Produced :
          HasCoordinates(outlet) =>
              IF Val(outlet.geocoding).location_type = "waze_link"
              THEN InMalaysia(<<Val(outlet.latitude).v, Val(outlet.longitude).v>>)
              ELSE ValidatorAccepts(outlet)
    /\ (/\ gpc = "geocoded"
         /\ geocoding_result # None
         /\ Val(geocoding_result).status = "success"
         /\ ~validate_coordinates(Val(geocoding_result).latitude,
                                  Val(geocoding_result).longitude).is_valid)
       => (/\ ~Succeeded(Val(enhanced_outlet))
           /\ ~HasCoordinates(Val(enhanced_outlet)))

\* a pair taken from the Waze link is stored although the validator would
\* reject it
C5_Witness ==
    /\ returned # None
    /\ Succeeded(Val(returned))
    /\ Val(Val(returned).geocoding).location_type = "waze_link"
    /\ InMalaysia(<<Val(Val(returned).latitude).v, Val(Val(returned).longitude).v>>)
    /\ ~ValidatorAccepts(Val(returned))

\* C6: when the Waze link yields a pair within the bounds of the country the
\* record is a success with confidence 0.95 and location type waze_link and
\* no request is sent to the service; the address is geocoded only for an
\* outlet whose link is absent or yields no such pair.
C6_WazeLinkFirst ==
    /\ (gpc = "geocoded" /\ LinkYieldsPair(outlet_data)) =>
          /\ Succeeded(Val(enhanced_outlet))
          /\ Val(Val(enhanced_outlet).geocoding).confidence = WAZE_CONFIDENCE
          /\ Val(Val(enhanced_outlet).geocoding).location_type = "waze_link"
          /\ Val(enhanced_outlet).latitude =
                 _extract_coordinates_from_waze_link(outlet_data.waze_link)[1]
          /\ Val(enhanced_outlet).longitude =
                 _extract_coordinates_from_waze_link(outlet_data.waze_link)[2]
    /\ (outlet_data # NoOutlet /\ LinkYieldsPair(outlet_data)) =>
          /\ sent = 0 /\ queried = <<>>
          /\ gpc \in {"idle", "geocoded"}
    /\ gpc \in {"variation", "attempt", "awaiting", "result", "validate"} =>
          \/ outlet_data.waze_link.url = ""
          \/ ~LinkYieldsPair(outlet_data)

\* an outlet with an address and a link that yields a pair has been geocoded
C6_Witness ==
    /\ gpc = "geocoded"
    /\ LinkYieldsPair(outlet_data)
    /\ outlet_data.address.raw # ""
    /\ Succeeded(Val(enhanced_outlet))

\* the variations geocode_address has been called with once the loop is at vi
QueriedSoFar ==
    { k \in 1..Len(variations) :
        /\ ~TooShort(variations[k])
        /\ k < vi \/ (k = vi /\ gpc # "variation") }

LastQueried == queried[Len(queried)]

\* C7: the variations are queried one at a time in the order of the
\* sequence, none that is long enough being passed over; once a variation
\* has given a success the loop is over and that variation is the last one
\* queried; any other answer, no_results among them, moves the loop on to
\* the next variation.
C7_InOrderUntilFirstSuccess ==
    /\ \A k \in 1..(Len(queried) - 1) : queried[k] < queried[k + 1]
    /\ SeqToSet(queried) = QueriedSoFar
    /\ succeeded_at # None =>
          /\ LastQueried = Val(succeeded_at)
          /\ gpc \in {"validate", "geocoded"}
          /\ geocoding_result # None
          /\ Val(geocoding_result).status = "success"
    /\ (gpc = "variation" /\ result # None /\ queried # <<>>) =>
          /\ Val(result).status # "success"
          /\ vi > LastQueried

\* an earlier variation had no success, a later one had, and more were left
C7_Witness ==
    /\ succeeded_at # None
    /\ Len(queried) >= 2
    /\ \E k \in (Val(succeeded_at) + 1)..Len(variations) : ~TooShort(variations[k])

\* C8: once the service has rate-limited a request for a variation, no
\* later variation of that outlet is queried.
C8_RateLimitEndsTheLoop ==
    limited_at # None => \A k \in 1..Len(queried) : queried[k] <= Val(limited_at)

\* C9 as stated: a query that ends in a service error or in a timeout has
\* been retried up to max_retries requests, and with the bound exhausted the
\* outlet is recorded as failed.
C9_RetriedThenFailed ==
    /\ (gpc = "result" /\ last_outcome \in {"service_error", "timed_out"}) =>
          attempts = max_retries
    /\ (gpc = "geocoded" /\ sent > 0 /\ last_outcome \in {"service_error", "timed_out"}
            /\ Val(result).status \in {"service_error", "max_retries_exceeded"}) =>
          ~Succeeded(Val(enhanced_outlet))

\* C9: a request that times out is sent again until max_retries requests
\* have been sent for the query, which then ends in max_retries_exceeded; a
\* service error ends the query at once, without a retry.  Either way the
\* loop goes on with the next variation, and the outlet is recorded as
\* failed only when no variation gives a success with valid coordinates.
C9_TimeoutRetriedServiceErrorNot ==
    /\ attempts <= max_retries
    /\ (gpc = "result" /\ Val(result).status = "max_retries_exceeded") =>
          /\ attempts = max_retries
          /\ last_outcome \in {"timed_out", "rate_limited"}
    /\ (gpc = "result" /\ last_outcome = "timed_out") =>
          Val(result).status = "max_retries_exceeded"
    /\ (gpc = "result" /\ last_outcome = "service_error") =>
          Val(result).status = "service_error"
    /\ (gpc = "variation" /\ result # None /\ queried # <<>>
            /\ Val(result).status \in {"service_error", "max_retries_exceeded"}) =>
          vi > LastQueried
    /\ (gpc = "geocoded" /\ sent > 0 /\ ~Succeeded(Val(enhanced_outlet))) =>
          \/ /\ succeeded_at = None
             /\ SeqToSet(queried) = QueriedSoFar
             /\ vi > Len(variations)
          \/ /\ succeeded_at # None
             /\ ~validate_coordinates(Val(geocoding_result).latitude,
                                      Val(geocoding_result).longitude).is_valid

\* a query ended in a service error after one request, the next variation
\* timed out max_retries times, and the loop has moved on from it
C9_Witness ==
    /\ gpc = "variation"
    /\ result # None
    /\ Val(result).status = "max_retries_exceeded"
    /\ last_outcome = "timed_out"
    /\ attempts = max_retries
    /\ Len(queried) >= 2
    /\ sent = max_retries + 1

\* C10: two consecutive requests start at least rate_limit_delay apart, and
\* at most one request is in flight.
C10_MinimumInterval ==
    /\ last_gap # None => Val(last_gap) >= DelayTicks
    /\ in_flight <= 1

(***************************************************************************)
(* Properties of the orchestrator.                                         *)
(***************************************************************************)
\* the key of the specification: name, "-", address
DedupKey(outlet) == outlet.name.text \o "-" \o outlet.address.raw

\* C2: within a run the list of outlets never holds two records with the
\* same key name + "-" + address; every key on the list is in the seen set;
\* each outlet that reaches the duplicate check is either added and counted
\* in unique_outlets or discarded and counted in duplicates_skipped; and the
\* key of a record is the key of its name and address alone.
C2_NoTwoOutletsShareAKey ==
    /\ \A a, b \in 1..Len(outlets) :
          a # b => DedupKey(outlets[a]) # DedupKey(outlets[b])
    /\ \A a \in 1..Len(outlets) :
          /\ DedupKey(outlets[a]) \in processed_outlets
          /\ outlet_key(outlets[a]) = DedupKey(outlets[a])
    /\ stats.unique_outlets = Cardinality(processed_outlets)
    /\ stats.unique_outlets + stats.duplicates_skipped = checked

\* in the first run an outlet was added and a later one discarded as its
\* duplicate
C2_Witness ==
    /\ run = 1
    /\ pc = "report"
    /\ Len(outlets) >= 1
    /\ stats.duplicates_skipped >= 1

\* C3: when extraction begins in a run the set of seen keys is empty.
C3_SeenKeysResetEachRun ==
    pc = "extract" => processed_outlets = {}

\* C4: the URL _click_waze_in_container returns for a container comes from a
\* request that the click on this container's button caused.
C4_LinkFromOwnClick ==
    (pc = "geocode" /\ waze_url # None) => Val(waze_url).cause = <<run, i>>

(***************************************************************************)
(* Properties of one call of scrape_outlets.                               *)
(***************************************************************************)
\* the latest call of scrape_outlets has ended
CallEnded == scrape_result.ended # "none" /\ pc = "ready"

\* C11: every call of scrape_outlets ends by returning a result whose
\* statistics carry the end_time and the total_runtime of that call,
\* whichever stage failed, a close in _cleanup included.
C11_AlwaysReturnsStatistics ==
    CallEnded =>
        /\ scrape_result.ended = "returned"
        /\ LET statistics == Val(scrape_result.value).statistics
           IN  /\ statistics.end_time = Some(Clock(scrape_result.call, 2))
               /\ statistics.total_runtime =
                     Val(statistics.end_time) - Val(statistics.start_time)
               /\ statistics.total_runtime > 0

(***************************************************************************)
(* Properties of the loop over the containers.                             *)
(***************************************************************************)
\* the run is inside the loop of _extract_outlets_sequentially
InContainerLoop(at) == at \in {"container", "sleeping", "geocode"}

\* this step ends the processing of a container in which the click raised,
\* or in which geocoding failed
EndsFailedContainer ==
    /\ pc = "geocode"
    /\ \/ failed # "none"
       \/ geo_stats'.geocoding_failed > geo_stats.geocoding_failed

\* C13 (as stated): a container in whose processing something failed leaves
\* the output list and the set of seen keys as if it had not been there.
C13_FailedContainerLeavesNoTrace ==
    [][EndsFailedContainer =>
          (outlets' = outlets /\ processed_outlets' = processed_outlets)]_vars

\* C13 (corrected): a failure in one container never ends the loop, which is
\* left only after the last container; a container whose extraction failed
\* is skipped and leaves no trace; a container whose click or geocoding
\* failed still reaches the duplicate check, so its key is in the set of seen
\* keys afterwards and, if the key was new, its record is appended.
C13_FailureDoesNotAbort ==
    [][/\ (InContainerLoop(pc) /\ ~InContainerLoop(pc')) => i > n_containers
       /\ (pc = "container" /\ pc' = "container" /\ i' = i + 1) =>
             (outlets' = outlets /\ processed_outlets' = processed_outlets)
       /\ EndsFailedContainer =>
             /\ pc' = "container" /\ i' = i + 1
             /\ checked' = checked + 1
             /\ outlet_key(container_data) \in processed_outlets'
             /\ outlet_key(container_data) \notin processed_outlets =>
                   /\ Len(outlets') = Len(outlets) + 1
                   /\ outlet_key(outlets'[Len(outlets')]) = outlet_key(container_data)
      ]_vars

\* the click of the first container raised, its record was appended all the
\* same without a link, and the loop stands at the second container
C13_Witness ==
    /\ pc = "container" /\ i = 2 /\ n_containers = 2
    /\ failed = "click"
    /\ Len(outlets) = 1
    /\ outlets[1].waze_link = NoLink
    /\ outlet_key(outlets[1]) \in processed_outlets
    /\ stats.unique_outlets = 1

\* the step is _add_geocoding and the duplicate check of the container
ReachesDuplicateCheck ==
    /\ pc' = "container" /\ i' = i + 1
    /\ checked' = checked + 1
    /\ outlet_key(container_data) \in processed_outlets'

\* C14: an outlet whose click-capture gave no URL (no button, nothing
\* captured, or an exception) is not dropped: the click cycle always ends in
\* the geocoding step, there the outlet carries no link, so geocoding takes
\* the address branch (never the Waze branch; the address is queried when
\* there is one), and the step ends in the duplicate check just as for an
\* outlet with a link.
C14_NoLinkFallsThroughToAddress ==
    [][/\ (pc = "sleeping" /\ pc' # "sleeping") => pc' = "geocode"
       /\ (pc' = "geocode" /\ waze_url' = None) =>
             /\ container_data'.waze_link = NoLink
             /\ ~WazeLinkSucceeds(container_data')
             /\ NeedsAddressGeocoding(container_data') <=>
                   container_data'.address.raw # ""
       /\ pc = "geocode" => ReachesDuplicateCheck
       /\ (pc = "geocode" /\ waze_url = None) =>
             /\ geo_stats'.waze_coordinates_extracted =
                   geo_stats.waze_coordinates_extracted
             /\ geocoding_enabled =>
                   geo_stats'.geocoding_successful + geo_stats'.geocoding_failed
                      = geo_stats.geocoding_successful + geo_stats.geocoding_failed + 1
      ]_vars

\* the click of the first container raised or resolved nothing; its outlet
\* was geocoded from its address and appended
C14_Witness ==
    /\ pc = "container" /\ i = 2
    /\ Len(outlets) = 1
    /\ outlets[1].waze_link = NoLink
    /\ Succeeded(outlets[1])
    /\ Val(outlets[1].geocoding).location_type # "waze_link"
    /\ geo_stats.geocoding_successful = 1

(***************************************************************************)
(* Properties of _save_to_database.                                        *)
(***************************************************************************)
\* this step inserts an outlet whose name is already a row of the table:
\* the existence query raised, so the loop went on to insert_outlet, and
\* the insert met the UNIQUE constraint on name
InsertHitsUniqueConstraint ==
    /\ pc = "save" /\ i <= Len(outlets)
    /\ validate_outlet_data(outlets[i]) # None
    /\ Val(validate_outlet_data(outlets[i])).name \in db
    /\ \E execute_raises \in BOOLEAN : SaveOutlet(TRUE, execute_raises)

\* C15: an insert that meets the uniqueness constraint on name is counted
\* as a skipped duplicate, not as a database error and not as saved, and the
\* loop goes on with the next outlet.
C15_UniqueConflictIsSkippedDuplicate ==
    [][InsertHitsUniqueConstraint =>
          /\ stats'.duplicates_skipped = stats.duplicates_skipped + 1
          /\ save_stats' = save_stats
          /\ i' = i + 1 /\ pc' = "save"]_vars

(***************************************************************************)
(* Properties of the pure functions.                                       *)
(***************************************************************************)
\* C16: validate_coordinates classifies a pair against the two nested boxes,
\* bounds inclusive: inside 3.0..3.25 x 101.6..101.8 valid, central and, when
\* no penalty applies, confidence 0.9; inside 2.9..3.4 x 101.5..101.9 but not
\* central valid, greater area and, when no penalty applies, 0.7; outside
\* the coarse box not valid and confidence 0.
C16_TwoNestedBoxes ==
    applied.fn = "validate_coordinates" =>
        LET lat == Val(applied.args[1]).v
            lng == Val(applied.args[2]).v
            central == 300 <= lat /\ lat <= 325 /\ 10160 <= lng /\ lng <= 10180
            coarse == 290 <= lat /\ lat <= 340 /\ 10150 <= lng /\ lng <= 10190
            v == applied.value
        IN  /\ central =>
                /\ v.is_valid /\ v.location_type = "central_kl"
                /\ v.validation_issues = <<>> => v.confidence = 90
            /\ (coarse /\ ~central) =>
                /\ v.is_valid /\ v.location_type = "greater_kl"
                /\ v.validation_issues = <<>> => v.confidence = 70
            /\ ~coarse => (~v.is_valid /\ v.confidence = 0)

\* a pair on the corner of the central box was classified central with 0.9
C16_Witness ==
    /\ applied.fn = "validate_coordinates"
    /\ Val(applied.args[1]).v = 325 /\ Val(applied.args[2]).v = 10180
    /\ applied.value.is_valid
    /\ applied.value.location_type = "central_kl"
    /\ applied.value.confidence = 90

\* C17: the confidence stored for an outlet geocoded from its address is
\* 0.7 * geocoding confidence + 0.3 * validation confidence rounded to two
\* decimals (the nearest hundredth), and lies in 0..1.
C17_CombinedConfidence ==
    (applied.fn = "geocode_outlet" /\ Succeeded(applied.value)) =>
        LET geocoded == Val(applied.args[2])
            geocoding_confidence == geocoded.confidence
            validation_confidence ==
                validate_coordinates(geocoded.latitude, geocoded.longitude).confidence
            weighted == 70 * geocoding_confidence + 30 * validation_confidence
            stored == Val(applied.value.geocoding).confidence
        IN  /\ 100 * stored - weighted <= 50
            /\ weighted - 100 * stored <= 50
            /\ 0 <= stored /\ stored <= 100

\* geocoding confidence 0.8 and validation confidence 0.9 gave 0.83
C17_Witness ==
    /\ applied.fn = "geocode_outlet"
    /\ Succeeded(applied.value)
    /\ Val(applied.args[2]).confidence = 80
    /\ Val(applied.args[2]).latitude = Some(Float(312, 2))
    /\ Val(applied.value.geocoding).confidence = 83

\* the patterns that match the link the function was applied to
MatchingPatterns ==
    { p \in DOMAIN applied.args[1].matches : applied.args[1].matches[p] # None }

\* C18: the first pattern, in priority order, that matches the URL decides
\* the result: its pair when the pair is inside the country bounds, absence
\* when it is not; later patterns are consulted only when none before them
\* matches.
C18_FirstMatchingPatternDecides ==
    (applied.fn = "_extract_coordinates_from_waze_link" /\ MatchingPatterns # {}) =>
        LET first == CHOOSE p \in MatchingPatterns : \A q \in MatchingPatterns : p <= q
            pair == Val(applied.args[1].matches[first])
        IN  applied.value =
               IF InMalaysia(pair)
               THEN <<Some(Float(pair[1], 2)), Some(Float(pair[2], 2))>>
               ELSE <<None, None>>

\* C19: for every non-empty input address, the cleaned address _clean_address
\* returns contains both the city token 'kuala lumpur' and the country token
\* 'malaysia', whether or not the input already contained them.
C19_CleanedHasCityAndCountry ==
    (applied.fn = "_clean_address" /\ applied.args[1].raw # "") =>
        {"kuala lumpur", "malaysia"} \subseteq applied.value.text.terms

\* the last element of a sequence of requests, absent for the empty sequence
Newest(requests) == IF requests = <<>> THEN None ELSE Some(requests[Len(requests)])

\* what each path finds: (a) the newest URL the route handler captured,
\* (b) the URL of the newest secondary page, (c) the URL of the main page;
\* absent unless it is a Waze URL
PathFinds ==
    LET waze(found) == IF found # None /\ IsWaze(Val(found).link) THEN found ELSE None
    IN  <<waze(Newest(applied.args[1])), waze(Newest(applied.args[2])),
          waze(Some(applied.args[3]))>>

C20_WitnessInPlace ==
    /\ applied.fn = "_click_waze_in_container"
    /\ PathFinds[1] = None /\ PathFinds[2] = None
    /\ applied.args[2] # <<>>
    /\ applied.value = Some(Request(LinkAlternative, NoClick))

\* C21: a capture cycle leaves the session where it found it: at the start
\* of every container's cycle the main results page is the only open page,
\* no secondary page of an earlier cycle is left open.
C21_OnlyMainPageAtCycleStart ==
    (pc = "container" /\ i <= n_containers) => popups = <<>>

\* the container's record is appended and counted as a new outlet
AppendedAsNew ==
    /\ outlet_key(container_data) \notin processed_outlets
    /\ processed_outlets' = processed_outlets \cup {outlet_key(container_data)}
    /\ Len(outlets') = Len(outlets) + 1
    /\ SubSeq(outlets', 1, Len(outlets)) = outlets
    /\ outlet_key(outlets'[Len(outlets')]) = outlet_key(container_data)
    /\ outlets'[Len(outlets')].waze_link = container_data.waze_link
    /\ stats' = [stats EXCEPT !.unique_outlets = @ + 1]

\* the container's record is discarded and counted as a duplicate
DiscardedAsDuplicate ==
    /\ outlet_key(container_data) \in processed_outlets
    /\ processed_outlets' = processed_outlets
    /\ outlets' = outlets
    /\ stats' = [stats EXCEPT !.duplicates_skipped = @ + 1]

\* C22: for each container the loop runs field extraction, navigation
\* capture, geocoding and the duplicate check in this order and ends one
\* container before it starts the next; the duplicate check ends in exactly
\* one of two ways: the key is new, the record is appended and unique_outlets
\* grows by one, or the key was seen, the record is discarded and
\* duplicates_skipped grows by one.
C22_OneContainerAtATime ==
    [][/\ (pc = "container" /\ i <= n_containers /\ pc' # pc) =>
             /\ pc' \in {"sleeping", "geocode"}
             /\ i' = i
             /\ container_data'.waze_link = NoLink
             /\ UNCHANGED <<outlets, processed_outlets, stats>>
       /\ (pc = "sleeping" /\ pc' # pc) =>
             /\ pc' = "geocode"
             /\ i' = i
             /\ outlet_key(container_data') = outlet_key(container_data)
             /\ UNCHANGED <<outlets, processed_outlets, stats>>
       /\ pc = "geocode" =>
             /\ pc' = "container" /\ i' = i + 1
             /\ checked' = checked + 1
             /\ AppendedAsNew \/ DiscardedAsDuplicate
             /\ ~(AppendedAsNew /\ DiscardedAsDuplicate)
       /\ (InContainerLoop(pc) /\ i' # i) =>
             /\ pc \in {"container", "geocode"} /\ pc' = "container"
             /\ i' = i + 1
      ]_vars

\* the first run handled two containers of the same key: the first was
\* appended, the second discarded
C22_Witness ==
    /\ run = 1 /\ pc = "container" /\ n_containers = 2 /\ i = 3
    /\ Len(outlets) = 1
    /\ stats.unique_outlets = 1 /\ stats.duplicates_skipped = 1
    /\ checked = 2

\* the selectors, in the listed order, that matched more than 10 elements
ClearingSelectors ==
    { k \in DOMAIN applied.args[1] :
        applied.args[1][k] # None /\ Val(applied.args[1][k]) > 10 }

\* C23: the containers used are those of the first selector, in the listed
\* order, that matches more than 10 elements, whatever later selectors
\* match; when no selector matches more than 10 elements no containers are
\* returned and the whole-page text-splitting fallback runs.
C23_FirstSelectorOverThreshold ==
    applied.fn = "_extract_outlets_sequentially" =>
        IF ClearingSelectors = {}
        THEN applied.value.containers = None /\ applied.value.path = "fallback"
        ELSE LET k == CHOOSE k \in ClearingSelectors :
                         \A other \in ClearingSelectors : k <= other
             IN  applied.value.containers =
                     Some([selector |-> k, count |-> Val(applied.args[1][k])])

\* the third selector matched 11 elements and the sixth 50: the 11 are used
C23_Witness ==
    /\ applied.fn = "_extract_outlets_sequentially"
    /\ applied.args[1][3] = Some(11) /\ applied.args[1][6] = Some(50)
    /\ applied.value.containers = Some([selector |-> 3, count |-> 11])

\* the hash of the first 500 characters of the markup of the k-th handle
\* iterated over, None when the markup cannot be read
MarkupHash(k) ==
    IF applied.value[k].raises THEN None ELSE Some(applied.value[k].html)

\* C24: the list of handles a loop iterates over, the containers of the
\* sequential path as well as the elements of the fallback path, never holds
\* two handles with the same hash of the first 500 characters of their
\* markup.
C24_NoTwoHandlesOfOneHash ==
    applied.fn \in {"outlet_containers", "outlet_elements"} =>
        \A j, k \in DOMAIN applied.value :
            (MarkupHash(j) # None /\ MarkupHash(j) = MarkupHash(k)) => j = k

\* the fallback path alone: no two handles of one hash, first occurrences
\* in their order
C24_FallbackPathOnly ==
    applied.fn = "outlet_elements" =>
        /\ \A j, k \in DOMAIN applied.value :
              (MarkupHash(j) # None /\ MarkupHash(j) = MarkupHash(k)) => j = k
        /\ \A k \in DOMAIN applied.value :
              \E n \in DOMAIN applied.args[1] :
                  /\ applied.args[1][n] = applied.value[k]
                  /\ \A m \in 1..(n - 1) : applied.args[1][m] # applied.value[k]

\* C25: _split_multiple_outlets returns between 1 and 100 blocks; a text
\* that names the brand at most once comes back as the single block; when
\* neither split yields more than one valid block, or a split yields more
\* than 100, the text comes back as the single block; the boundary split is
\* used only when the primary split yields at most one valid block.
C25_BetweenOneAndHundredBlocks ==
    applied.fn = "_split_multiple_outlets" =>
        LET mcd_count == applied.args[1]
            primary == applied.args[2]
            boundary == applied.args[3]
        IN  /\ 1 <= applied.value.length /\ applied.value.length <= 100
            /\ mcd_count <= 1 => applied.value = Blocks("text", 1)
            /\ (primary <= 1 /\ boundary <= 1) => applied.value = Blocks("text", 1)
            /\ (primary > 100 \/ (primary <= 1 /\ boundary > 100)) =>
                  applied.value = Blocks("text", 1)
            /\ applied.value.of = "boundary" => primary <= 1

\* C26: the duplicate check takes two outlets for duplicates only when they
\* have the same name and the same address: outlets that differ in name or
\* address never get the same key, and the second is not skipped.
C26_KeyCollisionOnlyForSameOutlet ==
    applied.fn = "outlet_key" =>
        LET first == applied.args[1]
            second == applied.args[2]
        IN  (first.name.text # second.name.text
                \/ first.address.raw # second.address.raw) =>
                /\ applied.value.keys[1] # applied.value.keys[2]
                /\ ~applied.value.skipped

\* C27: on one scraper instance, at every moment, unique_outlets is the
\* number of keys in processed_outlets, unique_outlets plus the
\* duplicates_skipped counted during extraction is the number of outlets
\* that reached the duplicate check, and unique_outlets is the number of
\* records appended so far: it grows by one exactly in the steps that append
\* a record, and during the first run it is the length of the output list.
C27_CountersAgree ==
    /\ [](/\ stats.unique_outlets = Cardinality(processed_outlets)
          /\ stats.unique_outlets + stats.duplicates_skipped = checked
          /\ (run = 1 /\ pc # "ready") => Len(outlets) = stats.unique_outlets)
    /\ [][/\ stats'.unique_outlets \in {stats.unique_outlets, stats.unique_outlets + 1}
          /\ (stats'.unique_outlets = stats.unique_outlets + 1)
                <=> (Len(outlets') = Len(outlets) + 1)]_vars

\* the second run on the instance skipped a duplicate after the first run
\* had appended two outlets
C27_Witness ==
    /\ run = 2
    /\ stats.unique_outlets = 2 /\ Cardinality(processed_outlets) = 2
    /\ stats.duplicates_skipped = 1
    /\ checked = 3

\* the statuses of the results geocode_address returns
ResultStatuses ==
    {"success", "no_results", "service_error", "error", "max_retries_exceeded"}

\* C28: geocode_address always terminates: whatever the service answers it
\* sends at most max_retries requests and returns a result with a status;
\* geocoding one outlet sends at most max_retries requests for each address
\* variation and always ends, in success or in failed.
C28_GeocodeAddressTerminates ==
    /\ [](/\ attempts <= max_retries
          /\ sent <= max_retries * Len(variations)
          /\ gpc = "result" => (result # None /\ Val(result).status \in ResultStatuses)
          /\ gpc = "geocoded" =>
                /\ enhanced_outlet # None
                /\ Val(enhanced_outlet).geocoding # None
                /\ Val(Val(enhanced_outlet).geocoding).status \in {"success", "failed"})
    /\ (gpc \in {"attempt", "awaiting"}) ~> (gpc = "result")
    /\ (gpc # "idle") ~> (gpc = "idle")

\* three requests for one variation ended in a timeout or a rate limit, and
\* geocode_address returned max_retries_exceeded
C28_Witness ==
    /\ gpc = "result"
    /\ attempts = max_retries
    /\ result = Some(Failure("max_retries_exceeded"))

\* saved, skipped as duplicate, or counted as database error, so far
SaveOutcomes ==
    save_stats.successfully_saved + stats.duplicates_skipped
        + save_stats.database_errors

\* the outlets _save_to_database was given and has handled so far
HandledBySave ==
    IF ~database_integration THEN 0
    ELSE IF pc = "save" THEN stats.unique_outlets - Len(outlets) + (i - 1)
    ELSE stats.unique_outlets

\* the step is one turn of the loop of _save_to_database
SaveTurn == pc = "save" /\ i' = i + 1

\* C29: _save_to_database puts every outlet given to it into exactly one of
\* saved, skipped duplicate and database error: the three counters together
\* grow by one for each outlet handled, and by the number of outlets given
\* once it has returned; an outlet whose name is in the table already is
\* never inserted; whatever happens to one outlet, the loop goes on with
\* the next.
C29_EveryOutletOneOutcome ==
    /\ [](SaveOutcomes = HandledBySave)
    /\ [][SaveTurn =>
            /\ save_stats'.successfully_saved >= save_stats.successfully_saved
            /\ stats'.duplicates_skipped >= stats.duplicates_skipped
            /\ save_stats'.database_errors >= save_stats.database_errors
            /\ SaveOutcomes' = SaveOutcomes + 1
            /\ pc' = "save" /\ outlets' = outlets
            /\ db' # db <=>
                  save_stats'.successfully_saved = save_stats.successfully_saved + 1
            /\ db' # db =>
                  /\ validate_outlet_data(outlets[i]) # None
                  /\ Val(validate_outlet_data(outlets[i])).name \notin db
                  /\ db' = db \cup {Val(validate_outlet_data(outlets[i])).name}
         ]_vars

\* over two runs one outlet was saved, one failed validation and one was
\* skipped because its name was in the table
C29_Witness ==
    /\ run = 2 /\ pc = "generate_report"
    /\ save_stats.successfully_saved = 1
    /\ save_stats.database_errors = 1
    /\ stats.duplicates_skipped = 1
    /\ stats.unique_outlets = 3

\* C30: when a call of scrape_outlets has ended, however it ended, none of
\* the page, the context and the browser it opened is still open, a close
\* that raised in _cleanup included.
C30_EveryOpenedHandleClosed ==
    (pc = "ready" /\ run > 0) =>
        \A h \in {"page", "context", "browser"} : handles[h] # "open"

\* the same for the calls whose _cleanup met no failing close
C30_ClosedWhenNoCloseRaises ==
    (pc = "ready" /\ run > 0 /\ scrape_result.ended = "returned") =>
        \A h \in {"page", "context", "browser"} : handles[h] # "open"

=============================================================================
